---- MODULE Spec2Model ----
(***************************************************************************)
(* Party planner bot: the dialogue layer (five ConversationHandlers and    *)
(* the stateless callback handlers registered in bot/main.py), the         *)
(* persistence layer of bot/database.py and the debounced info             *)
(* notification of bot/handlers/party_info.py.                             *)
(*                                                                         *)
(* One action per handler.  The Application is built without concurrent    *)
(* updates (main.py:51), so a handler runs to completion before the next   *)
(* update is dispatched; job-queue callbacks run as separate tasks and     *)
(* interleave with handlers at their awaits, so the notification callback  *)
(* is modelled step by step.                                               *)
(***************************************************************************)
EXTENDS Integers, Sequences, FiniteSets, TLC

\* ------------------------------------------------------------------ bounds
MaxParties == 2
MaxFillings == 2
MaxQueue == 2

\* ------------------------------------------------------- program constants
NOTIFICATION_DELAY == 30
MaxNameLen == 100
MaxInfoLen == 500

\* -------------------------------------------------------------- universes
Users == {"u1", "u2", "u3"}
PartyIds == 1..MaxParties
FillingIds == 1..MaxFillings
None == "none"
NoId == 0
NULL == <<"NULL">>
INFO_FIELDS == {"info_datetime", "info_address", "info_map_link", "info_description"}

\* -------------------------------------------------------------------- text
\* A text is a sequence of one-character strings.
Whitespace == {" "}

RECURSIVE lstrip(_)
lstrip(t) == IF t # <<>> /\ Head(t) \in Whitespace THEN lstrip(Tail(t)) ELSE t

RECURSIVE rstrip(_)
rstrip(t) ==
    IF t # <<>> /\ t[Len(t)] \in Whitespace THEN rstrip(SubSeq(t, 1, Len(t) - 1)) ELSE t

\* Faulty variant: nothing is trimmed.
no_strip(t) == t

strip(t) == rstrip(lstrip(t))

LowerChar(c) ==
    CASE c = "P" -> "p"
      [] c = "Q" -> "q"
      [] c = "X" -> "x"
      [] OTHER -> c

LOWER(t) == [i \in 1..Len(t) |-> LowerChar(t[i])]

startswith(t, prefix) ==
    Len(t) >= Len(prefix) /\ SubSeq(t, 1, Len(prefix)) = prefix

Repeat(c, n) == [i \in 1..n |-> c]

user_display_name(u) == <<"@", u>>

DigitChar(n) ==
    CASE n = 0 -> "0" [] n = 1 -> "1" [] n = 2 -> "2" [] n = 3 -> "3" [] n = 4 -> "4"
      [] n = 5 -> "5" [] n = 6 -> "6" [] n = 7 -> "7" [] n = 8 -> "8" [] n = 9 -> "9"

RECURSIVE Decimal(_)
Decimal(n) == IF n < 10 THEN <<DigitChar(n)>> ELSE Decimal(n \div 10) \o <<DigitChar(n % 10)>>

\* f"{n:02d}"
Format02d(n) == IF n < 10 THEN <<"0">> \o Decimal(n) ELSE Decimal(n)

\* f"{picked_date.strftime('%b %d, %Y')} at {hour:02d}:{minute:02d}"
DatetimeValue(picked_date, hour, minute) ==
    <<picked_date, " ", "a", "t", " ">> \o Format02d(hour) \o <<":">> \o Format02d(minute)

\* f"https://www.google.com/maps?q={loc.latitude},{loc.longitude}"
HttpsPrefix == <<"h", "t", "t", "p", "s", ":", "/", "/">>
HttpPrefix == <<"h", "t", "t", "p", ":", "/", "/">>
\* Faulty variant: the coordinates are swapped.
MapsUrlSwapped(lat, lon) == HttpsPrefix \o <<"maps?q=", lon, ",", lat>>

MapsUrl(lat, lon) == HttpsPrefix \o <<"maps?q=", lat, ",", lon>>

\* --------------------------------------------------------------- variables
VARIABLES
    parties,          \* table parties: rows [id, name, creator_id, info_*]
    party_members,    \* table party_members: rows [party_id, telegram_id, telegram_name, is_admin]
    fillings,         \* table fillings: rows [id, party_id, name, added_by_id, added_by_name]
    parties_id_seq,   \* last value of the SERIAL parties.id
    fillings_id_seq,  \* last value of the SERIAL fillings.id
    conversations,    \* ConversationHandler state, per dialogue and per user
    user_data,        \* context.user_data, per user
    jobs,             \* job queue: pending run_once jobs, in scheduling order
    running,          \* _send_info_notification callbacks in progress, per party
    since_arm,        \* time elapsed since the last arm of a party's job (history)
    fires,            \* what the fire callbacks since the last arm did (history)
    update_queue,     \* Application.update_queue: updates received and not yet fetched
    in_flight,        \* updates whose handler was called and has not returned
    reply             \* what the last handler did and answered (history)

db == <<parties, party_members, fillings, parties_id_seq, fillings_id_seq>>
notifier == <<jobs, running, since_arm, fires>>
app == <<update_queue, in_flight>>
vars == <<parties, party_members, fillings, parties_id_seq, fillings_id_seq,
          conversations, user_data, jobs, running, since_arm, fires,
          update_queue, in_flight, reply>>

\* ---------------------------------------------------------------- database
\* The operators below give the result of a query or the table after a
\* statement; every statement is one atomic step of the database.

NoParty == [id |-> NoId]
NoRow == [id |-> NoId]

get_party_by_id(party_id) ==
    IF \E r \in parties : r.id = party_id
    THEN CHOOSE r \in parties : r.id = party_id
    ELSE NoParty

\* Faulty variant: the names are compared as they are, case included.
has_party_with_name_exact(creator_id, name) ==
    \E r \in parties : r.creator_id = creator_id /\ r.name = name

has_party_with_name(creator_id, name) ==
    \E r \in parties : r.creator_id = creator_id /\ LOWER(r.name) = LOWER(name)

create_party_row(id, name, creator_id) ==
    [id |-> id, name |-> name, creator_id |-> creator_id,
     info_datetime |-> NULL, info_address |-> NULL,
     info_map_link |-> NULL, info_description |-> NULL]

\* Faulty variant: the value always goes to the address column.
update_party_address(party_id, field, value) ==
    {IF r.id = party_id THEN [r EXCEPT !.info_address = value] ELSE r : r \in parties}

\* Faulty variant: the UPDATE has no WHERE clause.
update_party_every(party_id, field, value) ==
    {[r EXCEPT ![field] = value] : r \in parties}

update_party_info(party_id, field, value) ==
    {IF r.id = party_id THEN [r EXCEPT ![field] = value] ELSE r : r \in parties}

get_member(party_id, telegram_id) ==
    IF \E m \in party_members : m.party_id = party_id /\ m.telegram_id = telegram_id
    THEN CHOOSE m \in party_members : m.party_id = party_id /\ m.telegram_id = telegram_id
    ELSE [party_id |-> NoId]

is_member(party_id, telegram_id) ==
    \E m \in party_members : m.party_id = party_id /\ m.telegram_id = telegram_id

get_members(party_id) == {m \in party_members : m.party_id = party_id}

is_user_admin(party_id, telegram_id) ==
    \E m \in party_members :
        m.party_id = party_id /\ m.telegram_id = telegram_id /\ m.is_admin

\* Faulty variant: an upsert that overwrites the whole row.
add_member_upsert(party_id, telegram_id, telegram_name, is_admin) ==
    {m \in party_members : ~(m.party_id = party_id /\ m.telegram_id = telegram_id)}
    \cup {[party_id |-> party_id, telegram_id |-> telegram_id,
            telegram_name |-> telegram_name, is_admin |-> is_admin]}

\* INSERT, and on the UNIQUE(party_id, telegram_id) violation an UPDATE of the name.
add_member(party_id, telegram_id, telegram_name, is_admin) ==
    IF is_member(party_id, telegram_id)
    THEN {IF m.party_id = party_id /\ m.telegram_id = telegram_id
          THEN [m EXCEPT !.telegram_name = telegram_name] ELSE m : m \in party_members}
    ELSE party_members \cup
         {[party_id |-> party_id, telegram_id |-> telegram_id,
           telegram_name |-> telegram_name, is_admin |-> is_admin]}

\* telegram_name ILIKE '%query%', for a query without the wildcards % and _.
ILIKE(telegram_name, query) ==
    \E i \in 0..(Len(telegram_name) - Len(query)) :
        SubSeq(LOWER(telegram_name), i + 1, i + Len(query)) = LOWER(query)

\* The rows are returned ordered by name; the model keeps them as a set.
search_members(party_id, query) ==
    {m \in party_members : m.party_id = party_id /\ ILIKE(m.telegram_name, query)}

set_admin(party_id, telegram_id, flag) ==
    {IF m.party_id = party_id /\ m.telegram_id = telegram_id
     THEN [m EXCEPT !.is_admin = flag] ELSE m : m \in party_members}

promote_admin(party_id, telegram_id) == set_admin(party_id, telegram_id, TRUE)
demote_admin(party_id, telegram_id) == set_admin(party_id, telegram_id, FALSE)

get_filling_by_id(filling_id) ==
    IF \E f \in fillings : f.id = filling_id
    THEN CHOOSE f \in fillings : f.id = filling_id
    ELSE NoRow

\* Faulty variant: the names are compared as they are, case included.
duplicate_fillings_exact(party_id, name) ==
    {f \in fillings : f.party_id = party_id /\ f.name = name}

\* fetchrow of SELECT ... WHERE party_id = $1 AND LOWER(name) = LOWER($2): any
\* one of the matching rows (the query has no ORDER BY).
duplicate_fillings(party_id, name) ==
    {f \in fillings : f.party_id = party_id /\ LOWER(f.name) = LOWER(name)}

add_filling(id, party_id, name, added_by_id, added_by_name) ==
    fillings \cup {[id |-> id, party_id |-> party_id, name |-> name,
                    added_by_id |-> added_by_id, added_by_name |-> added_by_name]}

rename_filling(filling_id, new_name) ==
    {IF f.id = filling_id THEN [f EXCEPT !.name = new_name] ELSE f : f \in fillings}

delete_filling(filling_id) == {f \in fillings : f.id # filling_id}

\* get_members as the list the handlers loop over: ORDER BY joined_at, a
\* column the rows here do not carry, so every order of the rows is possible.
MemberLists(party_id) ==
    LET rows == get_members(party_id)
        n == Cardinality(rows)
    IN {l \in [1..n -> rows] : \A i, j \in 1..n : l[i] = l[j] => i = j}

\* context.bot.send_message(chat_id, ...): TRUE when the call returns, FALSE when
\* it raises; unreachable are the chats that cannot be written to (the user
\* blocked the bot or never started it).
send_message(chat_id, unreachable) == chat_id \notin unreachable

\* ------------------------------------------------------------------ events
\* An update: a button tap with its callback data (the data split at ":"),
\* a text message that is not a command, a shared location, or /start <code>.
Callback(data) == [kind |-> "callback", data |-> data]
TextMessage(t) == [kind |-> "text", text |-> t]
LocationMessage(lat, lon) == [kind |-> "location", lat |-> lat, lon |-> lon]
StartCommand(code) == [kind |-> "command", code |-> code]
\* The same command sent after the user changed the username of the profile.
StartCommandAs(code, username) == [kind |-> "command", code |-> code, username |-> username]
\* user_display_name(update.effective_user): the update carries the profile.
effective_user_name(u, ev) ==
    IF "username" \in DOMAIN ev THEN <<"@", ev.username>> ELSE user_display_name(u)

IsCallback(ev, prefix) == ev.kind = "callback" /\ ev.data[1] = prefix
IsText(ev) == ev.kind = "text"

\* ------------------------------------------------------------ the dispatcher
\* Registration order of the five ConversationHandlers (one handler group).
Dialogues == <<"create_party", "add_filling", "rename_filling", "search_member", "set_info">>

\* Faulty variant: every conversation allows re-entry.
allow_reentry_all(d) == d \in {"create_party", "add_filling", "rename_filling",
                               "search_member", "set_info"}
allow_reentry(d) == d = "set_info"

entry_point(d, ev) ==
    CASE d = "create_party" /\ IsCallback(ev, "create_party") -> "create_party_start"
      [] d = "add_filling" /\ IsCallback(ev, "add_filling") -> "add_filling_start"
      [] d = "rename_filling" /\ IsCallback(ev, "rename_filling") -> "rename_filling_start"
      [] d = "search_member" /\ IsCallback(ev, "search_member") -> "search_member_start"
      [] d = "set_info" /\ IsCallback(ev, "set_info") -> "set_info_start"
      [] OTHER -> None

state_handler(d, state, ev) ==
    CASE d = "create_party" /\ state = "TYPING_PARTY_NAME" /\ IsText(ev) -> "receive_party_name"
      [] d = "add_filling" /\ state = "TYPING_FILLING_NAME" /\ IsText(ev) -> "receive_filling_name"
      [] d = "rename_filling" /\ state = "TYPING_RENAME" /\ IsText(ev) -> "receive_rename"
      [] d = "search_member" /\ state = "TYPING_SEARCH" /\ IsText(ev) -> "receive_search_query"
      [] d = "set_info" /\ state = "TYPING_INFO_VALUE" /\ IsText(ev) -> "receive_info_value"
      [] d = "set_info" /\ state = "TYPING_INFO_VALUE" /\ ev.kind = "location" -> "receive_location"
      [] d = "set_info" /\ state = "PICKING_DATE" /\ IsCallback(ev, "cbcal") -> "handle_calendar_callback"
      [] d = "set_info" /\ state = "PICKING_DATE" /\ IsText(ev) -> "receive_date_text"
      [] d = "set_info" /\ state = "PICKING_TIME" /\ IsCallback(ev, "pick_time") -> "handle_time_callback"
      [] d = "set_info" /\ state = "PICKING_TIME" /\ IsCallback(ev, "time_page") -> "handle_time_page"
      [] d = "set_info" /\ state = "PICKING_TIME" /\ IsText(ev) -> "receive_time_text"
      [] OTHER -> None

\* Faulty variant: SetPartyInfo also has a text fallback.
fallback_with_text(d, ev) ==
    CASE d = "set_info" /\ IsText(ev) -> "cancel_set_info"
      [] d = "create_party" /\ IsCallback(ev, "cancel") -> "cancel_conversation"
      [] d = "add_filling" /\ IsCallback(ev, "cancel") -> "cancel_add_filling"
      [] d = "rename_filling" /\ IsCallback(ev, "cancel") -> "cancel_rename"
      [] d = "search_member" /\ IsCallback(ev, "cancel") -> "cancel_search"
      [] d = "set_info" /\ IsCallback(ev, "clear_info") -> "clear_info_callback"
      [] d = "set_info" /\ IsCallback(ev, "edit_party_info") -> "cancel_set_info"
      [] OTHER -> None

fallback(d, ev) ==
    CASE d = "create_party" /\ IsCallback(ev, "cancel") -> "cancel_conversation"
      [] d = "add_filling" /\ IsCallback(ev, "cancel") -> "cancel_add_filling"
      [] d = "rename_filling" /\ IsCallback(ev, "cancel") -> "cancel_rename"
      [] d = "search_member" /\ IsCallback(ev, "cancel") -> "cancel_search"
      [] d = "set_info" /\ IsCallback(ev, "clear_info") -> "clear_info_callback"
      [] d = "set_info" /\ IsCallback(ev, "edit_party_info") -> "cancel_set_info"
      [] OTHER -> None

\* ConversationHandler.check_update: entry points when the user has no state
\* (or re-entry is allowed), then the handlers of the state, then the fallbacks.
check_update(d, u, ev) ==
    LET state == conversations[d][u]
        entry == entry_point(d, ev)
        handler == state_handler(d, state, ev)
    IN
    IF (state = None \/ allow_reentry(d)) /\ entry # None THEN entry
    ELSE IF state = None THEN None
    ELSE IF handler # None THEN handler
    ELSE fallback(d, ev)

\* The plain handlers registered after the conversations.
StatelessPatterns ==
    {"confirm_leave", "confirm_cancel_party", "confirm_kick", "promote_admin",
     "demote_admin", "remove_filling", "edit_party_info", "clear_info"}

stateless_handler(ev) ==
    CASE ev.kind = "command" -> "start_command"
      [] ev.kind = "callback" /\ ev.data[1] \in StatelessPatterns ->
            IF ev.data[1] = "remove_filling" THEN "remove_filling_callback"
            ELSE IF ev.data[1] = "edit_party_info" THEN "edit_party_info_callback"
            ELSE IF ev.data[1] = "clear_info" THEN "clear_info_callback"
            ELSE IF ev.data[1] = "confirm_leave" THEN "confirm_leave_callback"
            ELSE IF ev.data[1] = "confirm_cancel_party" THEN "confirm_cancel_party_callback"
            ELSE IF ev.data[1] = "confirm_kick" THEN "confirm_kick_callback"
            ELSE IF ev.data[1] = "promote_admin" THEN "promote_admin_callback"
            ELSE "demote_admin_callback"
      [] OTHER -> None

RECURSIVE first_conversation(_, _, _)
first_conversation(i, u, ev) ==
    IF i > Len(Dialogues) THEN [conv |-> None, handler |-> None]
    ELSE LET handler == check_update(Dialogues[i], u, ev) IN
         IF handler # None THEN [conv |-> Dialogues[i], handler |-> handler]
         ELSE first_conversation(i + 1, u, ev)

\* Faulty variant: the plain handlers are asked before the conversations.
process_update_plain_first(u, ev) ==
    IF stateless_handler(ev) # None
    THEN [conv |-> None, handler |-> stateless_handler(ev)]
    ELSE first_conversation(1, u, ev)

\* Application.process_update: the first handler, in registration order, that
\* accepts the update handles it, and no other handler sees it.
process_update(u, ev) ==
    LET first == first_conversation(1, u, ev) IN
    IF first.handler # None THEN first
    ELSE [conv |-> None, handler |-> stateless_handler(ev)]

\* Handler h, of conversation d or plain (d = None), is the one that handles
\* the update: it accepts the update and no handler registered before it does.
Routed(u, ev, d, h) ==
    /\ h = (IF d = None THEN stateless_handler(ev) ELSE check_update(d, u, ev))
    /\ process_update(u, ev) = [conv |-> d, handler |-> h]

\* The handler of update ev of user u returns.  The update is the one in
\* flight; or, where the arrival of an update, its dispatch and its handler
\* are taken as one step, nothing is queued or in flight before and after.
Handled(u, ev) ==
    LET mine == {i \in 1..Len(in_flight) : in_flight[i].u = u /\ in_flight[i].ev = ev} IN
    IF mine # {}
    THEN /\ \E i \in mine :
               in_flight' = SubSeq(in_flight, 1, i - 1) \o SubSeq(in_flight, i + 1, Len(in_flight))
         /\ UNCHANGED update_queue
    ELSE /\ in_flight = <<>>
         /\ update_queue = <<>>
         /\ UNCHANGED app

\* An update of user u arrives from Telegram and is put in the update queue.
receive_update(u, ev) ==
    /\ Len(update_queue) < MaxQueue
    /\ update_queue' = Append(update_queue, [u |-> u, ev |-> ev])
    /\ UNCHANGED <<db, conversations, user_data, notifier, in_flight, reply>>

\* What the application does with the update at the head of the queue: the
\* first handler that accepts it is called (it is in flight until it
\* returns); an update that no handler accepts is dropped.
dispatch ==
    LET x == Head(update_queue)
        first == process_update(x.u, x.ev)
    IN
    /\ update_queue' = Tail(update_queue)
    /\ in_flight' =
          IF first.handler = None THEN in_flight
          ELSE Append(in_flight,
                      [u |-> x.u, ev |-> x.ev, conv |-> first.conv, handler |-> first.handler,
                       seen |-> IF first.conv = None THEN None
                                ELSE conversations[first.conv][x.u]])
    /\ UNCHANGED <<db, conversations, user_data, notifier, reply>>

\* Faulty variant: an application built with concurrent_updates, which starts
\* a task for every update it fetches.
update_fetcher_concurrent ==
    /\ update_queue # <<>>
    /\ dispatch

\* Application._update_fetcher of an application built without
\* concurrent_updates (ApplicationBuilder().token(...).build()): it awaits
\* process_update, so it fetches the next update when no handler is in flight.
update_fetcher ==
    /\ update_queue # <<>>
    /\ in_flight = <<>>
    /\ dispatch

\* The conversation state after a handler of dialogue d returned new_state
\* (ConversationHandler.END removes the user's key).
END == None
Returns(d, u, new_state) == conversations' = [conversations EXCEPT ![d][u] = new_state]

\* What the handler answered: the kind of message, a text it quotes, and the
\* party whose notification job it armed (NoId when it armed none).
Answer(u, h, text, arg, armed) ==
    reply' = [to |-> u, handler |-> h, text |-> text, arg |-> arg, armed |-> armed,
              old |-> <<>>, input |-> <<>>, attempted |-> {}, sent |-> 0, failed |-> 0, rows |-> {}]

\* The same, for a handler of a typed text: input is update.message.text.
AnswerTyped(u, h, text, arg, armed, input) ==
    reply' = [to |-> u, handler |-> h, text |-> text, arg |-> arg, armed |-> armed,
              old |-> <<>>, input |-> input, attempted |-> {}, sent |-> 0, failed |-> 0, rows |-> {}]

\* The same, for a handler that overwrote a stored text: old is the text it replaced.
AnswerOver(u, h, text, arg, old) ==
    reply' = [to |-> u, handler |-> h, text |-> text, arg |-> arg, armed |-> NoId,
              old |-> old, input |-> <<>>, attempted |-> {}, sent |-> 0, failed |-> 0, rows |-> {}]

\* The same, for a handler that went on to send messages to other chats:
\* attempted are the chats it called send_message for, sent and failed are its
\* counts of the calls that returned and of the calls that raised.
AnswerSent(u, h, text, attempted, sent, failed) ==
    reply' = [to |-> u, handler |-> h, text |-> text, arg |-> <<>>, armed |-> NoId,
              old |-> <<>>, input |-> <<>>,
              attempted |-> attempted, sent |-> sent, failed |-> failed, rows |-> {}]

\* The same, for a handler that lists member rows: rows are the names listed.
AnswerRows(u, h, text, arg, rows) ==
    reply' = [to |-> u, handler |-> h, text |-> text, arg |-> arg, armed |-> NoId,
              old |-> <<>>, input |-> <<>>, attempted |-> {}, sent |-> 0, failed |-> 0,
              rows |-> rows]

\* ------------------------------------------------------ the notification job
\* context.job_queue.get_jobs_by_name(job_name): the positions of the pending
\* jobs of that name (the job of party p is named info_notify_<p>).
get_jobs_by_name(party_id) == {i \in 1..Len(jobs) : jobs[i].name = party_id}

NoFire == [armed_by |-> None, replaced |-> None, count |-> 0, admin |-> None,
           at |-> 0, gone |-> FALSE, found |-> TRUE, members |-> {}, attempted |-> {}]

\* Faulty variant: the pending job is replaced but the new job keeps the old
\* job's remaining delay (the timer is not reset).
schedule_keeping_deadline(party_id, admin_id) ==
    /\ jobs' = Append(SelectSeq(jobs, LAMBDA j : j.name # party_id),
                      [name |-> party_id, admin_id |-> admin_id,
                       left |-> IF get_jobs_by_name(party_id) = {} THEN NOTIFICATION_DELAY
                                ELSE jobs[CHOOSE i \in get_jobs_by_name(party_id) : TRUE].left])
    /\ since_arm' = [since_arm EXCEPT ![party_id] = 0]
    /\ fires' = [fires EXCEPT ![party_id] =
                    [NoFire EXCEPT !.armed_by = admin_id,
                                   !.replaced =
                                       IF get_jobs_by_name(party_id) = {} THEN None
                                       ELSE jobs[CHOOSE i \in get_jobs_by_name(party_id) : TRUE].admin_id]]
    /\ UNCHANGED running

\* Faulty variant: nothing is scheduled.
schedule_nothing(party_id, admin_id) == UNCHANGED notifier

\* Faulty variant: only the pending job armed by the same admin is removed.
schedule_per_admin(party_id, admin_id) ==
    /\ jobs' = Append(SelectSeq(jobs, LAMBDA j : ~(j.name = party_id /\ j.admin_id = admin_id)),
                      [name |-> party_id, admin_id |-> admin_id,
                       left |-> NOTIFICATION_DELAY])
    /\ since_arm' = [since_arm EXCEPT ![party_id] = 0]
    /\ fires' = [fires EXCEPT ![party_id] = [NoFire EXCEPT !.armed_by = admin_id]]
    /\ UNCHANGED running

schedule_info_notification(party_id, admin_id) ==
    /\ jobs' = Append(SelectSeq(jobs, LAMBDA j : j.name # party_id),
                      [name |-> party_id, admin_id |-> admin_id,
                       left |-> NOTIFICATION_DELAY])
    /\ since_arm' = [since_arm EXCEPT ![party_id] = 0]
    /\ fires' = [fires EXCEPT ![party_id] =
                    [NoFire EXCEPT !.armed_by = admin_id,
                                   !.replaced =
                                       IF get_jobs_by_name(party_id) = {} THEN None
                                       ELSE jobs[CHOOSE i \in get_jobs_by_name(party_id) : TRUE].admin_id]]
    /\ UNCHANGED running

Idle == [pc |-> "idle", admin_id |-> None, todo |-> {}]

\* Time passes by d units; a job that is due runs before time passes further.
Advance(d) ==
    /\ jobs # <<>>
    /\ \A i \in 1..Len(jobs) : jobs[i].left >= d
    /\ jobs' = [i \in 1..Len(jobs) |-> [jobs[i] EXCEPT !.left = @ - d]]
    /\ since_arm' = [p \in PartyIds |->
                        IF get_jobs_by_name(p) # {} THEN since_arm[p] + d ELSE since_arm[p]]
    /\ UNCHANGED <<db, conversations, user_data, app, running, fires, reply>>

Tick == Advance(1)

\* The job queue runs a due job: the job leaves the queue and its callback starts.
\* A callback lasts far less than NOTIFICATION_DELAY, so the callback of the
\* party's previous job has returned when the next one is due.
run_job(p) ==
    /\ running[p].pc = "idle"
    /\ \E i \in get_jobs_by_name(p) :
          /\ jobs[i].left = 0
          /\ jobs' = SubSeq(jobs, 1, i - 1) \o SubSeq(jobs, i + 1, Len(jobs))
          /\ running' = [running EXCEPT ![p] =
                            [pc |-> "get_party", admin_id |-> jobs[i].admin_id, todo |-> {}]]
          /\ fires' = [fires EXCEPT ![p].count = @ + 1,
                                    ![p].admin = jobs[i].admin_id,
                                    ![p].at = since_arm[p],
                                    ![p].gone = get_party_by_id(p).id = NoId,
                                    ![p].found = TRUE,
                                    ![p].members = {},
                                    ![p].attempted = {}]
    /\ UNCHANGED <<db, conversations, user_data, app, since_arm, reply>>

\* Faulty variant: the callback goes on without looking at the party.
send_info_notification_unchecked(p) ==
    /\ running[p].pc = "get_party"
    /\ running' = [running EXCEPT ![p].pc = "get_party_info"]
    /\ fires' = [fires EXCEPT ![p].found = get_party_by_id(p).id # NoId]
    /\ UNCHANGED <<db, conversations, user_data, app, jobs, since_arm, reply>>

\* _send_info_notification up to its first await: the party is looked up, and
\* the callback returns when it is gone.
send_info_notification_party(p) ==
    /\ running[p].pc = "get_party"
    /\ IF get_party_by_id(p).id = NoId
       THEN /\ running' = [running EXCEPT ![p] = Idle]
            /\ fires' = [fires EXCEPT ![p].found = FALSE]
       ELSE /\ running' = [running EXCEPT ![p].pc = "get_party_info"]
            /\ fires' = [fires EXCEPT ![p].found = TRUE]
    /\ UNCHANGED <<db, conversations, user_data, app, jobs, since_arm, reply>>

\* Faulty variant: the callback ends the set_info dialogue of the admin.
send_info_notification_info_ending(p) ==
    /\ running[p].pc = "get_party_info"
    /\ running' = [running EXCEPT ![p].pc = "get_members"]
    /\ conversations' = [conversations EXCEPT !["set_info"][running[p].admin_id] = None]
    /\ UNCHANGED <<db, user_data, app, jobs, since_arm, fires, reply>>

send_info_notification_info(p) ==
    /\ running[p].pc = "get_party_info"
    /\ running' = [running EXCEPT ![p].pc = "get_members"]
    /\ UNCHANGED <<db, conversations, user_data, app, jobs, since_arm, fires, reply>>

\* Faulty variant: the loop does not skip the admin.
send_info_notification_members_all(p) ==
    /\ running[p].pc = "get_members"
    /\ LET todo == {m.telegram_id : m \in get_members(p)} IN
       /\ running' = [running EXCEPT ![p] =
                         IF todo = {} THEN Idle ELSE [@ EXCEPT !.pc = "send", !.todo = todo]]
       /\ fires' = [fires EXCEPT ![p].members = {m.telegram_id : m \in get_members(p)}]
    /\ UNCHANGED <<db, conversations, user_data, app, jobs, since_arm, reply>>

\* The members are read; the loop skips the admin whose edit armed the job.
send_info_notification_members(p) ==
    /\ running[p].pc = "get_members"
    /\ LET todo == {m.telegram_id : m \in get_members(p)} \ {running[p].admin_id} IN
       /\ running' = [running EXCEPT ![p] =
                         IF todo = {} THEN Idle ELSE [@ EXCEPT !.pc = "send", !.todo = todo]]
       /\ fires' = [fires EXCEPT ![p].members = {m.telegram_id : m \in get_members(p)}]
    /\ UNCHANGED <<db, conversations, user_data, app, jobs, since_arm, reply>>

\* Faulty variant: a send that raises ends the loop.
send_info_notification_send_stopping(p) ==
    /\ running[p].pc = "send"
    /\ \E m \in running[p].todo : \E unreachable \in SUBSET {m} :
          /\ running' = [running EXCEPT ![p] =
                            IF running[p].todo = {m} \/ ~send_message(m, unreachable)
                            THEN Idle
                            ELSE [@ EXCEPT !.todo = @ \ {m}]]
          /\ fires' = [fires EXCEPT ![p].attempted = @ \cup {m}]
    /\ UNCHANGED <<db, conversations, user_data, app, jobs, since_arm, reply>>

\* One pass of the loop: send_message to the next member, which returns or
\* raises; the exception is caught and logged and the loop goes on either way.
send_info_notification_send(p) ==
    /\ running[p].pc = "send"
    /\ \E m \in running[p].todo : \E unreachable \in SUBSET {m} :
          /\ running' = [running EXCEPT ![p] =
                            IF running[p].todo = {m} THEN Idle
                            ELSE IF send_message(m, unreachable)
                                 THEN [@ EXCEPT !.todo = @ \ {m}]
                                 ELSE [@ EXCEPT !.todo = @ \ {m}]]
          /\ fires' = [fires EXCEPT ![p].attempted = @ \cup {m}]
    /\ UNCHANGED <<db, conversations, user_data, app, jobs, since_arm, reply>>

\* ------------------------------------------------- CreateParty (party.py)
create_party_start(u, ev) ==
    /\ Routed(u, ev, "create_party", "create_party_start")
    /\ Handled(u, ev)
    /\ Returns("create_party", u, "TYPING_PARTY_NAME")
    /\ Answer(u, "create_party_start", "prompt", <<>>, NoId)
    /\ UNCHANGED <<db, user_data, notifier>>

receive_party_name(u, ev) ==
    /\ Routed(u, ev, "create_party", "receive_party_name")
    /\ Handled(u, ev)
    /\ LET name == strip(ev.text) IN
       IF name = <<>>
       THEN /\ Returns("create_party", u, "TYPING_PARTY_NAME")
            /\ Answer(u, "receive_party_name", "empty", <<>>, NoId)
            /\ UNCHANGED db
       ELSE IF Len(name) > MaxNameLen
       THEN /\ Returns("create_party", u, "TYPING_PARTY_NAME")
            /\ Answer(u, "receive_party_name", "too_long", <<>>, NoId)
            /\ UNCHANGED db
       ELSE IF has_party_with_name(u, name)
       THEN /\ Returns("create_party", u, "TYPING_PARTY_NAME")
            /\ Answer(u, "receive_party_name", "duplicate", name, NoId)
            /\ UNCHANGED db
       ELSE /\ parties_id_seq < MaxParties
            /\ parties_id_seq' = parties_id_seq + 1
            /\ parties' = parties \cup {create_party_row(parties_id_seq + 1, name, u)}
            /\ party_members' =
                   add_member(parties_id_seq + 1, u, user_display_name(u), TRUE)
            /\ Returns("create_party", u, END)
            /\ Answer(u, "receive_party_name", "created", name, NoId)
            /\ UNCHANGED <<fillings, fillings_id_seq>>
    /\ UNCHANGED <<user_data, notifier>>

\* The run of receive_party_name in which db.create_party succeeds and
\* db.add_member raises (a lost connection, a timeout): the handler has no
\* try and no transaction around the two calls, so the exception leaves it
\* after the INSERT of the party; the ConversationHandler keeps the state of a
\* handler that raised, and no answer is sent.
receive_party_name_add_member_raises(u, ev) ==
    /\ Routed(u, ev, "create_party", "receive_party_name")
    /\ Handled(u, ev)
    /\ LET name == strip(ev.text) IN
       /\ name # <<>>
       /\ Len(name) <= MaxNameLen
       /\ ~has_party_with_name(u, name)
       /\ parties_id_seq < MaxParties
       /\ parties_id_seq' = parties_id_seq + 1
       /\ parties' = parties \cup {create_party_row(parties_id_seq + 1, name, u)}
       /\ Answer(u, "receive_party_name", "raised", name, NoId)
    /\ UNCHANGED <<party_members, fillings, fillings_id_seq, conversations, user_data, notifier>>

cancel_conversation(u, ev) ==
    /\ Routed(u, ev, "create_party", "cancel_conversation")
    /\ Handled(u, ev)
    /\ Returns("create_party", u, END)
    /\ Answer(u, "cancel_conversation", "cancelled", <<>>, NoId)
    /\ UNCHANGED <<db, user_data, notifier>>

\* ---------------------------------------------- AddFilling (fillings.py)
add_filling_start(u, ev) ==
    /\ Routed(u, ev, "add_filling", "add_filling_start")
    /\ Handled(u, ev)
    /\ LET party_id == ev.data[2] IN
       IF ~is_member(party_id, u)
       THEN /\ Returns("add_filling", u, END)
            /\ Answer(u, "add_filling_start", "not_a_member", <<>>, NoId)
            /\ UNCHANGED user_data
       ELSE /\ user_data' = [user_data EXCEPT ![u].add_filling_party_id = party_id]
            /\ Returns("add_filling", u, "TYPING_FILLING_NAME")
            /\ Answer(u, "add_filling_start", "prompt", <<>>, NoId)
    /\ UNCHANGED <<db, notifier>>

receive_filling_name(u, ev) ==
    /\ Routed(u, ev, "add_filling", "receive_filling_name")
    /\ Handled(u, ev)
    /\ LET party_id == user_data[u].add_filling_party_id
           name == strip(ev.text)
       IN
       IF ~is_member(party_id, u)
       THEN /\ Returns("add_filling", u, END)
            /\ Answer(u, "receive_filling_name", "not_a_member", <<>>, NoId)
            /\ UNCHANGED db
       ELSE IF name = <<>>
       THEN /\ Returns("add_filling", u, "TYPING_FILLING_NAME")
            /\ Answer(u, "receive_filling_name", "empty", <<>>, NoId)
            /\ UNCHANGED db
       ELSE IF Len(name) > MaxNameLen
       THEN /\ Returns("add_filling", u, "TYPING_FILLING_NAME")
            /\ Answer(u, "receive_filling_name", "too_long", <<>>, NoId)
            /\ UNCHANGED db
       ELSE IF duplicate_fillings(party_id, name) # {}
       THEN /\ \E dup \in duplicate_fillings(party_id, name) :
                  Answer(u, "receive_filling_name", "taken", dup.added_by_name, NoId)
            /\ Returns("add_filling", u, "TYPING_FILLING_NAME")
            /\ UNCHANGED db
       ELSE /\ fillings_id_seq < MaxFillings
            /\ fillings_id_seq' = fillings_id_seq + 1
            /\ fillings' = add_filling(fillings_id_seq + 1, party_id, name, u,
                                       user_display_name(u))
            /\ Returns("add_filling", u, END)
            /\ Answer(u, "receive_filling_name", "added", name, NoId)
            /\ UNCHANGED <<parties, party_members, parties_id_seq>>
    /\ UNCHANGED <<user_data, notifier>>

cancel_add_filling(u, ev) ==
    /\ Routed(u, ev, "add_filling", "cancel_add_filling")
    /\ Handled(u, ev)
    /\ Returns("add_filling", u, END)
    /\ Answer(u, "cancel_add_filling", "cancelled", <<>>, NoId)
    /\ UNCHANGED <<db, user_data, notifier>>

\* ------------------------------------------- RenameFilling (fillings.py)
\* Faulty variants: no match counts as another filling; every match does.
never_other_filling(dup, filling_id) == FALSE
always_other_filling(dup, filling_id) == TRUE

\* if dup and dup["id"] != filling_id
is_other_filling(dup, filling_id) == dup.id # filling_id

rename_filling_start(u, ev) ==
    /\ Routed(u, ev, "rename_filling", "rename_filling_start")
    /\ Handled(u, ev)
    /\ LET filling_id == ev.data[2]
           filling == get_filling_by_id(filling_id)
       IN
       IF filling.id = NoId
       THEN /\ Returns("rename_filling", u, END)
            /\ Answer(u, "rename_filling_start", "filling_not_found", <<>>, NoId)
            /\ UNCHANGED user_data
       ELSE IF ~is_member(filling.party_id, u)
       THEN /\ Returns("rename_filling", u, END)
            /\ Answer(u, "rename_filling_start", "not_a_member", <<>>, NoId)
            /\ UNCHANGED user_data
       ELSE IF filling.added_by_id # u /\ ~is_user_admin(filling.party_id, u)
       THEN /\ Returns("rename_filling", u, END)
            /\ Answer(u, "rename_filling_start", "not_yours", <<>>, NoId)
            /\ UNCHANGED user_data
       ELSE /\ user_data' = [user_data EXCEPT
                                ![u].rename_filling_id = filling_id,
                                ![u].rename_filling_party_id = filling.party_id]
            /\ Returns("rename_filling", u, "TYPING_RENAME")
            /\ Answer(u, "rename_filling_start", "prompt", filling.name, NoId)
    /\ UNCHANGED <<db, notifier>>

receive_rename(u, ev) ==
    /\ Routed(u, ev, "rename_filling", "receive_rename")
    /\ Handled(u, ev)
    /\ LET filling_id == user_data[u].rename_filling_id
           party_id == user_data[u].rename_filling_party_id
           new_name == strip(ev.text)
           dups == duplicate_fillings(party_id, new_name)
       IN
       IF ~is_member(party_id, u)
       THEN /\ Returns("rename_filling", u, END)
            /\ Answer(u, "receive_rename", "not_a_member", <<>>, NoId)
            /\ UNCHANGED db
       ELSE IF new_name = <<>>
       THEN /\ Returns("rename_filling", u, "TYPING_RENAME")
            /\ Answer(u, "receive_rename", "empty", <<>>, NoId)
            /\ UNCHANGED db
       ELSE IF Len(new_name) > MaxNameLen
       THEN /\ Returns("rename_filling", u, "TYPING_RENAME")
            /\ Answer(u, "receive_rename", "too_long", <<>>, NoId)
            /\ UNCHANGED db
       ELSE \/ \E dup \in dups :
                  /\ is_other_filling(dup, filling_id)
                  /\ Returns("rename_filling", u, "TYPING_RENAME")
                  /\ Answer(u, "receive_rename", "taken", dup.added_by_name, NoId)
                  /\ UNCHANGED db
            \/ /\ dups = {} \/ \E dup \in dups : ~is_other_filling(dup, filling_id)
               /\ fillings' = rename_filling(filling_id, new_name)
               /\ Returns("rename_filling", u, END)
               /\ AnswerOver(u, "receive_rename", "renamed", new_name,
                             IF get_filling_by_id(filling_id).id = NoId THEN <<>>
                             ELSE get_filling_by_id(filling_id).name)
               /\ UNCHANGED <<parties, party_members, parties_id_seq, fillings_id_seq>>
    /\ UNCHANGED <<user_data, notifier>>

cancel_rename(u, ev) ==
    /\ Routed(u, ev, "rename_filling", "cancel_rename")
    /\ Handled(u, ev)
    /\ Returns("rename_filling", u, END)
    /\ Answer(u, "cancel_rename", "cancelled", <<>>, NoId)
    /\ UNCHANGED <<db, user_data, notifier>>

\* --------------------------------------------- SearchMember (members.py)
search_member_start(u, ev) ==
    /\ Routed(u, ev, "search_member", "search_member_start")
    /\ Handled(u, ev)
    /\ user_data' = [user_data EXCEPT ![u].search_member_party_id = ev.data[2]]
    /\ Returns("search_member", u, "TYPING_SEARCH")
    /\ Answer(u, "search_member_start", "prompt", <<>>, NoId)
    /\ UNCHANGED <<db, notifier>>

receive_search_query(u, ev) ==
    /\ Routed(u, ev, "search_member", "receive_search_query")
    /\ Handled(u, ev)
    /\ IF strip(ev.text) = <<>>
       THEN /\ Returns("search_member", u, "TYPING_SEARCH")
            /\ Answer(u, "receive_search_query", "empty", <<>>, NoId)
       ELSE /\ Returns("search_member", u, END)
            /\ AnswerRows(u, "receive_search_query", "results", strip(ev.text),
                          {m.telegram_name :
                              m \in search_members(user_data[u].search_member_party_id,
                                                   strip(ev.text))})
    /\ UNCHANGED <<db, user_data, notifier>>

cancel_search(u, ev) ==
    /\ Routed(u, ev, "search_member", "cancel_search")
    /\ Handled(u, ev)
    /\ Returns("search_member", u, END)
    /\ Answer(u, "cancel_search", "cancelled", <<>>, NoId)
    /\ UNCHANGED <<db, user_data, notifier>>

\* ------------------------------------------- SetPartyInfo (party_info.py)
set_info_start(u, ev) ==
    /\ Routed(u, ev, "set_info", "set_info_start")
    /\ Handled(u, ev)
    /\ LET party_id == ev.data[2]
           field == ev.data[3]
       IN
       IF field \notin INFO_FIELDS
       THEN /\ Returns("set_info", u, END)
            /\ Answer(u, "set_info_start", "invalid_field", <<>>, NoId)
            /\ UNCHANGED user_data
       ELSE IF ~is_user_admin(party_id, u)
       THEN /\ Returns("set_info", u, END)
            /\ Answer(u, "set_info_start", "no_permission", <<>>, NoId)
            /\ UNCHANGED user_data
       ELSE /\ user_data' = [user_data EXCEPT ![u].edit_info_party_id = party_id,
                                              ![u].edit_info_field = field]
            /\ Returns("set_info", u,
                       IF field = "info_datetime" THEN "PICKING_DATE" ELSE "TYPING_INFO_VALUE")
            /\ Answer(u, "set_info_start", "prompt", <<>>, NoId)
    /\ UNCHANGED <<db, notifier>>

\* Faulty variant: the picked date is not kept.
handle_calendar_callback_forgetful(u, ev) ==
    /\ Routed(u, ev, "set_info", "handle_calendar_callback")
    /\ Handled(u, ev)
    /\ Returns("set_info", u, IF ev.data[2] = "select" THEN "PICKING_TIME" ELSE "PICKING_DATE")
    /\ Answer(u, "handle_calendar_callback",
              IF ev.data[2] = "select" THEN "pick_time"
              ELSE IF ev.data[2] = "nav" THEN "calendar" ELSE "nothing", <<>>, NoId)
    /\ UNCHANGED <<db, user_data, notifier>>

\* _new_calendar().process(query.data): a navigation button gives a new
\* keyboard, a day button gives the date, a blank cell gives neither.
handle_calendar_callback(u, ev) ==
    /\ Routed(u, ev, "set_info", "handle_calendar_callback")
    /\ Handled(u, ev)
    /\ IF ev.data[2] = "select"
       THEN /\ user_data' = [user_data EXCEPT ![u].edit_info_date = ev.data[3]]
            /\ Returns("set_info", u, "PICKING_TIME")
            /\ Answer(u, "handle_calendar_callback", "pick_time", <<>>, NoId)
       ELSE /\ UNCHANGED user_data
            /\ Returns("set_info", u, "PICKING_DATE")
            /\ Answer(u, "handle_calendar_callback",
                      IF ev.data[2] = "nav" THEN "calendar" ELSE "nothing", <<>>, NoId)
    /\ UNCHANGED <<db, notifier>>

\* Faulty variant: a typed text ends the dialogue.
receive_date_text_ending(u, ev) ==
    /\ Routed(u, ev, "set_info", "receive_date_text")
    /\ Handled(u, ev)
    /\ Returns("set_info", u, END)
    /\ Answer(u, "receive_date_text", "use_calendar", <<>>, NoId)
    /\ UNCHANGED <<db, user_data, notifier>>

receive_date_text(u, ev) ==
    /\ Routed(u, ev, "set_info", "receive_date_text")
    /\ Handled(u, ev)
    /\ Returns("set_info", u, "PICKING_DATE")
    /\ Answer(u, "receive_date_text", "use_calendar", <<>>, NoId)
    /\ UNCHANGED <<db, user_data, notifier>>

\* Shared by the button and the text handler: the value is written, and the
\* job is armed when the party is still there.  h and input stand for
\* send_func, the caller's way of answering (edit the menu message, or reply
\* to the typed message).
save_datetime(u, party_id, picked_date, hour, minute, h, input) ==
    /\ parties' = update_party_info(party_id, "info_datetime",
                                    DatetimeValue(picked_date, hour, minute))
    /\ IF get_party_by_id(party_id).id = NoId
       THEN /\ AnswerTyped(u, h, "party_not_found", <<>>, NoId, input)
            /\ UNCHANGED notifier
       ELSE /\ schedule_info_notification(party_id, u)
            /\ AnswerTyped(u, h, "datetime_set",
                           DatetimeValue(picked_date, hour, minute), party_id, input)
    /\ Returns("set_info", u, END)
    /\ UNCHANGED <<party_members, fillings, parties_id_seq, fillings_id_seq, user_data>>

handle_time_callback(u, ev) ==
    /\ Routed(u, ev, "set_info", "handle_time_callback")
    /\ Handled(u, ev)
    /\ IF user_data[u].edit_info_date = None
       THEN /\ Returns("set_info", u, END)
            /\ Answer(u, "handle_time_callback", "went_wrong", <<>>, NoId)
            /\ UNCHANGED <<db, user_data, notifier>>
       ELSE save_datetime(u, ev.data[2], user_data[u].edit_info_date, ev.data[3], ev.data[4],
                          "handle_time_callback", <<>>)

handle_time_page(u, ev) ==
    /\ Routed(u, ev, "set_info", "handle_time_page")
    /\ Handled(u, ev)
    /\ Returns("set_info", u, "PICKING_TIME")
    /\ Answer(u, "handle_time_page", "pick_time", <<>>, NoId)
    /\ UNCHANGED <<db, user_data, notifier>>

IsDigit(c) == c \in {"0", "1", "2", "3", "4", "5", "6", "7", "8", "9"}
DigitValue(c) == CHOOSE n \in 0..9 : DigitChar(n) = c
TimeSeparators == {":", ".", " "}

\* Faulty variant: the separator is required.
ParseTimeSeparated(raw) ==
    LET d(i) == IsDigit(raw[i])
        v(i) == DigitValue(raw[i])
    IN
    CASE Len(raw) = 5 /\ d(1) /\ d(2) /\ raw[3] \in TimeSeparators /\ d(4) /\ d(5) ->
            <<TRUE, 10 * v(1) + v(2), 10 * v(4) + v(5)>>
      [] Len(raw) = 4 /\ d(1) /\ raw[2] \in TimeSeparators /\ d(3) /\ d(4) ->
            <<TRUE, v(1), 10 * v(3) + v(4)>>
      [] OTHER -> <<FALSE, 0, 0>>

\* re.match(r"^(\d{1,2})[:.\s]?(\d{2})$", raw): <<matched, hour, minute>>.
ParseTime(raw) ==
    LET d(i) == IsDigit(raw[i])
        v(i) == DigitValue(raw[i])
    IN
    CASE Len(raw) = 5 /\ d(1) /\ d(2) /\ raw[3] \in TimeSeparators /\ d(4) /\ d(5) ->
            <<TRUE, 10 * v(1) + v(2), 10 * v(4) + v(5)>>
      [] Len(raw) = 4 /\ d(1) /\ d(2) /\ d(3) /\ d(4) ->
            <<TRUE, 10 * v(1) + v(2), 10 * v(3) + v(4)>>
      [] Len(raw) = 4 /\ d(1) /\ raw[2] \in TimeSeparators /\ d(3) /\ d(4) ->
            <<TRUE, v(1), 10 * v(3) + v(4)>>
      [] Len(raw) = 3 /\ d(1) /\ d(2) /\ d(3) ->
            <<TRUE, v(1), 10 * v(2) + v(3)>>
      [] OTHER -> <<FALSE, 0, 0>>

receive_time_text(u, ev) ==
    /\ Routed(u, ev, "set_info", "receive_time_text")
    /\ Handled(u, ev)
    /\ LET party_id == user_data[u].edit_info_party_id
           picked_date == user_data[u].edit_info_date
           m == ParseTime(strip(ev.text))
       IN
       IF picked_date = None
       THEN /\ Returns("set_info", u, END)
            /\ AnswerTyped(u, "receive_time_text", "went_wrong", <<>>, NoId, ev.text)
            /\ UNCHANGED <<db, user_data, notifier>>
       ELSE IF ~m[1]
       THEN /\ Returns("set_info", u, "PICKING_TIME")
            /\ AnswerTyped(u, "receive_time_text", "unparsed", <<>>, NoId, ev.text)
            /\ UNCHANGED <<db, user_data, notifier>>
       ELSE IF ~(0 <= m[2] /\ m[2] <= 23 /\ 0 <= m[3] /\ m[3] <= 59)
       THEN /\ Returns("set_info", u, "PICKING_TIME")
            /\ AnswerTyped(u, "receive_time_text", "invalid_time", <<>>, NoId, ev.text)
            /\ UNCHANGED <<db, user_data, notifier>>
       ELSE save_datetime(u, party_id, picked_date, m[2], m[3],
                          "receive_time_text", ev.text)

receive_info_value(u, ev) ==
    /\ Routed(u, ev, "set_info", "receive_info_value")
    /\ Handled(u, ev)
    /\ LET party_id == user_data[u].edit_info_party_id
           field == user_data[u].edit_info_field
           value == strip(ev.text)
       IN
       IF ~is_user_admin(party_id, u)
       THEN /\ Returns("set_info", u, END)
            /\ Answer(u, "receive_info_value", "no_permission", <<>>, NoId)
            /\ UNCHANGED <<db, notifier>>
       ELSE IF value = <<>>
       THEN /\ Returns("set_info", u, "TYPING_INFO_VALUE")
            /\ Answer(u, "receive_info_value", "empty", <<>>, NoId)
            /\ UNCHANGED <<db, notifier>>
       ELSE IF Len(value) > MaxInfoLen
       THEN /\ Returns("set_info", u, "TYPING_INFO_VALUE")
            /\ Answer(u, "receive_info_value", "too_long", <<>>, NoId)
            /\ UNCHANGED <<db, notifier>>
       ELSE IF field = "info_map_link"
               /\ ~(startswith(value, HttpPrefix) \/ startswith(value, HttpsPrefix))
       THEN /\ Returns("set_info", u, "TYPING_INFO_VALUE")
            /\ Answer(u, "receive_info_value", "bad_link", <<>>, NoId)
            /\ UNCHANGED <<db, notifier>>
       ELSE /\ parties' = update_party_info(party_id, field, value)
            /\ UNCHANGED <<party_members, fillings, parties_id_seq, fillings_id_seq>>
            /\ Returns("set_info", u, END)
            /\ IF get_party_by_id(party_id).id = NoId
               THEN /\ Answer(u, "receive_info_value", "party_not_found", <<>>, NoId)
                    /\ UNCHANGED notifier
               ELSE /\ schedule_info_notification(party_id, u)
                    /\ Answer(u, "receive_info_value", "updated", value, party_id)
    /\ UNCHANGED user_data

\* Faulty variant: a location is taken for every field.
accepts_location_always(field) == TRUE

\* if field not in ("info_address", "info_map_link")
accepts_location(field) == field \in {"info_address", "info_map_link"}

\* Faulty variant: the shared location is saved without arming the notifier.
receive_location_silent(u, ev) ==
    /\ Routed(u, ev, "set_info", "receive_location")
    /\ Handled(u, ev)
    /\ is_user_admin(user_data[u].edit_info_party_id, u)
    /\ accepts_location(user_data[u].edit_info_field)
    /\ get_party_by_id(user_data[u].edit_info_party_id).id # NoId
    /\ parties' = update_party_info(user_data[u].edit_info_party_id, "info_map_link",
                                    MapsUrl(ev.lat, ev.lon))
    /\ Returns("set_info", u,
               IF user_data[u].edit_info_field = "info_address"
               THEN "TYPING_INFO_VALUE" ELSE END)
    /\ Answer(u, "receive_location", "map_saved", MapsUrl(ev.lat, ev.lon),
              user_data[u].edit_info_party_id)
    /\ UNCHANGED <<party_members, fillings, parties_id_seq, fillings_id_seq,
                   user_data, notifier>>

receive_location(u, ev) ==
    /\ Routed(u, ev, "set_info", "receive_location")
    /\ Handled(u, ev)
    /\ LET party_id == user_data[u].edit_info_party_id
           field == user_data[u].edit_info_field
           maps_url == MapsUrl(ev.lat, ev.lon)
       IN
       IF ~is_user_admin(party_id, u)
       THEN /\ Returns("set_info", u, END)
            /\ Answer(u, "receive_location", "no_permission", <<>>, NoId)
            /\ UNCHANGED <<db, notifier>>
       ELSE IF ~accepts_location(field)
       THEN /\ Returns("set_info", u, "TYPING_INFO_VALUE")
            /\ Answer(u, "receive_location", "not_supported", <<>>, NoId)
            /\ UNCHANGED <<db, notifier>>
       ELSE /\ parties' = update_party_info(party_id, "info_map_link", maps_url)
            /\ UNCHANGED <<party_members, fillings, parties_id_seq, fillings_id_seq>>
            /\ IF get_party_by_id(party_id).id = NoId
               THEN /\ Returns("set_info", u, END)
                    /\ Answer(u, "receive_location", "party_not_found", <<>>, NoId)
                    /\ UNCHANGED notifier
               ELSE /\ schedule_info_notification(party_id, u)
                    /\ Returns("set_info", u,
                               IF field = "info_address" THEN "TYPING_INFO_VALUE" ELSE END)
                    /\ Answer(u, "receive_location", "map_saved", maps_url, party_id)
    /\ UNCHANGED user_data

cancel_set_info(u, ev) ==
    /\ Routed(u, ev, "set_info", "cancel_set_info")
    /\ Handled(u, ev)
    /\ Returns("set_info", u, END)
    /\ Answer(u, "cancel_set_info",
              IF user_data[u].edit_info_party_id = NoId THEN "cancelled"
              ELSE IF get_party_by_id(user_data[u].edit_info_party_id).id = NoId
                   THEN "party_not_found" ELSE "edit_menu",
              <<>>, NoId)
    /\ UNCHANGED <<db, user_data, notifier>>

\* Registered twice: as a fallback of the set_info conversation and as a plain
\* handler; conv is the conversation it ran under, None for the plain handler.
clear_info_callback(u, ev, conv) ==
    /\ Routed(u, ev, conv, "clear_info_callback")
    /\ Handled(u, ev)
    /\ LET party_id == ev.data[2]
           field == ev.data[3]
       IN
       IF field \notin INFO_FIELDS
       THEN /\ Answer(u, "clear_info_callback", "invalid_field", <<>>, NoId)
            /\ UNCHANGED <<db, notifier>>
       ELSE IF ~is_user_admin(party_id, u)
       THEN /\ Answer(u, "clear_info_callback", "no_permission", <<>>, NoId)
            /\ UNCHANGED <<db, notifier>>
       ELSE IF get_party_by_id(party_id).id = NoId
       THEN /\ Answer(u, "clear_info_callback", "party_not_found", <<>>, NoId)
            /\ UNCHANGED <<db, notifier>>
       ELSE /\ parties' = update_party_info(party_id, field, NULL)
            /\ UNCHANGED <<party_members, fillings, parties_id_seq, fillings_id_seq>>
            /\ schedule_info_notification(party_id, u)
            /\ Answer(u, "clear_info_callback", "cleared", <<>>, party_id)
    /\ IF conv = None THEN UNCHANGED conversations ELSE Returns(conv, u, END)
    /\ UNCHANGED user_data

\* ------------------------------------------------------ stateless handlers
edit_party_info_callback(u, ev) ==
    /\ Routed(u, ev, None, "edit_party_info_callback")
    /\ Handled(u, ev)
    /\ Answer(u, "edit_party_info_callback",
              IF ~is_user_admin(ev.data[2], u) THEN "no_permission"
              ELSE IF get_party_by_id(ev.data[2]).id = NoId THEN "party_not_found"
              ELSE "edit_menu",
              <<>>, NoId)
    /\ UNCHANGED <<db, conversations, user_data, notifier>>

\* /start <code>: the invite code of a party stands for the party's id.
start_command(u, ev) ==
    /\ Routed(u, ev, None, "start_command")
    /\ Handled(u, ev)
    /\ IF get_party_by_id(ev.code).id = NoId
       THEN /\ Answer(u, "start_command", "party_not_found", <<>>, NoId)
            /\ UNCHANGED party_members
       ELSE /\ party_members' = add_member(ev.code, u, effective_user_name(u, ev), FALSE)
            /\ Answer(u, "start_command",
                      IF is_member(ev.code, u) THEN "already_in" ELSE "joined", <<>>, NoId)
    /\ UNCHANGED <<parties, fillings, parties_id_seq, fillings_id_seq,
                   conversations, user_data, notifier>>

\* Faulty variant: only the member row is deleted.
remove_member_row(party_id, telegram_id) ==
    /\ fillings' = fillings
    /\ party_members' = {m \in party_members :
                            ~(m.party_id = party_id /\ m.telegram_id = telegram_id)}

\* remove_member: one transaction deleting the member's fillings and the member.
remove_member(party_id, telegram_id) ==
    /\ fillings' = {f \in fillings :
                       ~(f.party_id = party_id /\ f.added_by_id = telegram_id)}
    /\ party_members' = {m \in party_members :
                            ~(m.party_id = party_id /\ m.telegram_id = telegram_id)}

\* Faulty variant: only the row of the party is deleted.
delete_party_row(party_id) ==
    /\ parties' = {r \in parties : r.id # party_id}
    /\ UNCHANGED <<fillings, party_members>>

\* delete_party: one transaction deleting the fillings, the members, the party.
delete_party(party_id) ==
    /\ fillings' = {f \in fillings : f.party_id # party_id}
    /\ party_members' = {m \in party_members : m.party_id # party_id}
    /\ parties' = {r \in parties : r.id # party_id}

\* Faulty variant: the owner is not re-checked.
confirm_leave_unchecked(u, ev) ==
    /\ Routed(u, ev, None, "confirm_leave_callback")
    /\ Handled(u, ev)
    /\ IF get_party_by_id(ev.data[2]).id = NoId
       THEN /\ Answer(u, "confirm_leave_callback", "party_not_found", <<>>, NoId)
            /\ UNCHANGED db
       ELSE /\ remove_member(ev.data[2], u)
            /\ Answer(u, "confirm_leave_callback", "left", <<>>, NoId)
            /\ UNCHANGED <<parties, parties_id_seq, fillings_id_seq>>
    /\ UNCHANGED <<conversations, user_data, notifier>>

confirm_leave_callback(u, ev) ==
    /\ Routed(u, ev, None, "confirm_leave_callback")
    /\ Handled(u, ev)
    /\ LET party_id == ev.data[2]
           party == get_party_by_id(party_id)
       IN
       IF party.id = NoId
       THEN /\ Answer(u, "confirm_leave_callback", "party_not_found", <<>>, NoId)
            /\ UNCHANGED db
       ELSE IF party.creator_id = u
       THEN /\ Answer(u, "confirm_leave_callback", "owner_cannot_leave", <<>>, NoId)
            /\ UNCHANGED db
       ELSE /\ remove_member(party_id, u)
            /\ Answer(u, "confirm_leave_callback", "left", <<>>, NoId)
            /\ UNCHANGED <<parties, parties_id_seq, fillings_id_seq>>
    /\ UNCHANGED <<conversations, user_data, notifier>>

\* The loop that tells the other members that the party was cancelled: the
\* chats a send was attempted to.  A send that raises is caught and logged.
RECURSIVE notify_cancelled(_, _, _)
notify_cancelled(members, user, unreachable) ==
    IF members = <<>> THEN {}
    ELSE LET m == Head(members) IN
         IF m.telegram_id = user THEN notify_cancelled(Tail(members), user, unreachable)
         ELSE IF send_message(m.telegram_id, unreachable)
              THEN {m.telegram_id} \cup notify_cancelled(Tail(members), user, unreachable)
              ELSE {m.telegram_id} \cup notify_cancelled(Tail(members), user, unreachable)

confirm_cancel_party_callback(u, ev) ==
    /\ Routed(u, ev, None, "confirm_cancel_party_callback")
    /\ Handled(u, ev)
    /\ LET party_id == ev.data[2] IN
       IF get_party_by_id(party_id).id = NoId \/ ~is_user_admin(party_id, u)
       THEN /\ Answer(u, "confirm_cancel_party_callback", "no_permission", <<>>, NoId)
            /\ UNCHANGED db
       ELSE /\ delete_party(party_id)
            /\ \E members \in MemberLists(party_id) :
               \E unreachable \in SUBSET {m.telegram_id : m \in get_members(party_id)} :
                  AnswerSent(u, "confirm_cancel_party_callback", "party_cancelled",
                             notify_cancelled(members, u, unreachable), 0, 0)
            /\ UNCHANGED <<parties_id_seq, fillings_id_seq>>
    /\ UNCHANGED <<conversations, user_data, notifier>>

confirm_kick_callback(u, ev) ==
    /\ Routed(u, ev, None, "confirm_kick_callback")
    /\ Handled(u, ev)
    /\ LET party_id == ev.data[2]
           target_id == ev.data[3]
           party == get_party_by_id(party_id)
       IN
       IF party.id = NoId \/ ~is_user_admin(party_id, u)
       THEN /\ Answer(u, "confirm_kick_callback", "no_permission", <<>>, NoId)
            /\ UNCHANGED db
       ELSE IF target_id = party.creator_id
       THEN /\ Answer(u, "confirm_kick_callback", "cannot_remove_owner", <<>>, NoId)
            /\ UNCHANGED db
       ELSE /\ remove_member(party_id, target_id)
            /\ Answer(u, "confirm_kick_callback", "removed", <<>>, NoId)
            /\ UNCHANGED <<parties, parties_id_seq, fillings_id_seq>>
    /\ UNCHANGED <<conversations, user_data, notifier>>

promote_admin_callback(u, ev) ==
    /\ Routed(u, ev, None, "promote_admin_callback")
    /\ Handled(u, ev)
    /\ LET party_id == ev.data[2]
           target_id == ev.data[3]
       IN
       IF get_party_by_id(party_id).id = NoId \/ ~is_user_admin(party_id, u)
       THEN /\ Answer(u, "promote_admin_callback", "no_permission", <<>>, NoId)
            /\ UNCHANGED db
       ELSE IF ~is_member(party_id, target_id)
       THEN /\ Answer(u, "promote_admin_callback", "member_not_found", <<>>, NoId)
            /\ UNCHANGED db
       ELSE /\ party_members' = promote_admin(party_id, target_id)
            /\ Answer(u, "promote_admin_callback", "promoted", <<>>, NoId)
            /\ UNCHANGED <<parties, fillings, parties_id_seq, fillings_id_seq>>
    /\ UNCHANGED <<conversations, user_data, notifier>>

demote_admin_callback(u, ev) ==
    /\ Routed(u, ev, None, "demote_admin_callback")
    /\ Handled(u, ev)
    /\ LET party_id == ev.data[2]
           target_id == ev.data[3]
           party == get_party_by_id(party_id)
       IN
       IF party.id = NoId \/ ~is_user_admin(party_id, u)
       THEN /\ Answer(u, "demote_admin_callback", "no_permission", <<>>, NoId)
            /\ UNCHANGED db
       ELSE IF target_id = party.creator_id
       THEN /\ Answer(u, "demote_admin_callback", "cannot_demote_owner", <<>>, NoId)
            /\ UNCHANGED db
       ELSE IF ~is_member(party_id, target_id)
       THEN /\ Answer(u, "demote_admin_callback", "member_not_found", <<>>, NoId)
            /\ UNCHANGED db
       ELSE /\ party_members' = demote_admin(party_id, target_id)
            /\ Answer(u, "demote_admin_callback", "demoted", <<>>, NoId)
            /\ UNCHANGED <<parties, fillings, parties_id_seq, fillings_id_seq>>
    /\ UNCHANGED <<conversations, user_data, notifier>>

remove_filling_callback(u, ev) ==
    /\ Routed(u, ev, None, "remove_filling_callback")
    /\ Handled(u, ev)
    /\ LET filling == get_filling_by_id(ev.data[2]) IN
       IF filling.id = NoId
       THEN /\ Answer(u, "remove_filling_callback", "filling_not_found", <<>>, NoId)
            /\ UNCHANGED db
       ELSE IF ~is_member(filling.party_id, u)
       THEN /\ Answer(u, "remove_filling_callback", "not_a_member", <<>>, NoId)
            /\ UNCHANGED db
       ELSE IF filling.added_by_id # u /\ ~is_user_admin(filling.party_id, u)
       THEN /\ Answer(u, "remove_filling_callback", "not_yours", <<>>, NoId)
            /\ UNCHANGED db
       ELSE /\ fillings' = delete_filling(filling.id)
            /\ Answer(u, "remove_filling_callback", "removed", filling.name, NoId)
            /\ UNCHANGED <<parties, party_members, parties_id_seq, fillings_id_seq>>
    /\ UNCHANGED <<conversations, user_data, notifier>>

\* ------------------------------------------------- Broadcast (party.py)
\* broadcast_conversation() is built in party.py but main.py does not add it
\* to the application.  Its handlers are given here as the ConversationHandler
\* would call them were it added; the dispatcher above never routes to them.
MaxBroadcastLen == 1000

broadcast_start(u, ev) ==
    /\ IsCallback(ev, "broadcast")
    /\ conversations["broadcast"][u] = None
    /\ Handled(u, ev)
    /\ LET party_id == ev.data[2]
           recipient_count == Cardinality({m \in get_members(party_id) : m.telegram_id # u})
       IN
       IF ~is_user_admin(party_id, u)
       THEN /\ Returns("broadcast", u, END)
            /\ Answer(u, "broadcast_start", "no_permission", <<>>, NoId)
            /\ UNCHANGED user_data
       ELSE IF get_party_by_id(party_id).id = NoId
       THEN /\ Returns("broadcast", u, END)
            /\ Answer(u, "broadcast_start", "party_not_found", <<>>, NoId)
            /\ UNCHANGED user_data
       ELSE IF recipient_count = 0
       THEN /\ Returns("broadcast", u, END)
            /\ Answer(u, "broadcast_start", "no_other_members", <<>>, NoId)
            /\ UNCHANGED user_data
       ELSE /\ user_data' = [user_data EXCEPT ![u].broadcast_party_id = party_id]
            /\ Returns("broadcast", u, "TYPING_BROADCAST")
            /\ Answer(u, "broadcast_start", "prompt", <<>>, NoId)
    /\ UNCHANGED <<db, notifier>>

\* The sending loop of receive_broadcast_text: the chats a send was attempted
\* to and the two counters, sent += 1 after a send that returned, failed += 1
\* in the except branch.
RECURSIVE broadcast_loop(_, _, _)
broadcast_loop(members, user, unreachable) ==
    IF members = <<>> THEN [attempted |-> {}, sent |-> 0, failed |-> 0]
    ELSE LET m == Head(members)
             rest == broadcast_loop(Tail(members), user, unreachable)
         IN
         IF m.telegram_id = user THEN rest
         ELSE IF send_message(m.telegram_id, unreachable)
              THEN [rest EXCEPT !.attempted = @ \cup {m.telegram_id}, !.sent = @ + 1]
              ELSE [rest EXCEPT !.attempted = @ \cup {m.telegram_id}, !.failed = @ + 1]

receive_broadcast_text(u, ev) ==
    /\ IsText(ev)
    /\ conversations["broadcast"][u] = "TYPING_BROADCAST"
    /\ Handled(u, ev)
    /\ LET party_id == user_data[u].broadcast_party_id
           text == strip(ev.text)
       IN
       IF ~is_user_admin(party_id, u)
       THEN /\ Returns("broadcast", u, END)
            /\ Answer(u, "receive_broadcast_text", "no_permission", <<>>, NoId)
       ELSE IF get_party_by_id(party_id).id = NoId
       THEN /\ Returns("broadcast", u, END)
            /\ Answer(u, "receive_broadcast_text", "party_not_found", <<>>, NoId)
       ELSE IF text = <<>>
       THEN /\ Returns("broadcast", u, "TYPING_BROADCAST")
            /\ Answer(u, "receive_broadcast_text", "empty", <<>>, NoId)
       ELSE IF Len(text) > MaxBroadcastLen
       THEN /\ Returns("broadcast", u, "TYPING_BROADCAST")
            /\ Answer(u, "receive_broadcast_text", "too_long", <<>>, NoId)
       ELSE /\ Returns("broadcast", u, END)
            /\ \E members \in MemberLists(party_id) :
               \E unreachable \in SUBSET {m.telegram_id : m \in get_members(party_id)} :
                  LET done == broadcast_loop(members, u, unreachable) IN
                  AnswerSent(u, "receive_broadcast_text", "sent",
                             done.attempted, done.sent, done.failed)
    /\ UNCHANGED <<db, user_data, notifier>>

\* ------------------------------------------------------------ initial state
\* The process starts with no conversation, no user_data and no job; the
\* database is the one an earlier run left: party 1, named P, created by u1
\* and joined by u2.
NameP == <<"P">>

NoUserData ==
    [add_filling_party_id |-> NoId, rename_filling_id |-> NoId,
     rename_filling_party_id |-> NoId, search_member_party_id |-> NoId,
     edit_info_party_id |-> NoId, edit_info_field |-> None, edit_info_date |-> None,
     broadcast_party_id |-> NoId]

Init ==
    /\ parties = {create_party_row(1, NameP, "u1")}
    /\ party_members =
          {[party_id |-> 1, telegram_id |-> "u1",
            telegram_name |-> user_display_name("u1"), is_admin |-> TRUE],
           [party_id |-> 1, telegram_id |-> "u2",
            telegram_name |-> user_display_name("u2"), is_admin |-> FALSE]}
    /\ fillings = {}
    /\ parties_id_seq = 1
    /\ fillings_id_seq = 0
    /\ conversations = [d \in {Dialogues[i] : i \in 1..Len(Dialogues)} \cup {"broadcast"} |->
                            [u \in Users |-> None]]
    /\ user_data = [u \in Users |-> NoUserData]
    /\ jobs = <<>>
    /\ running = [p \in PartyIds |-> Idle]
    /\ since_arm = [p \in PartyIds |-> 0]
    /\ fires = [p \in PartyIds |-> NoFire]
    /\ update_queue = <<>>
    /\ in_flight = <<>>
    /\ reply = [to |-> None, handler |-> None, text |-> None, arg |-> <<>>, armed |-> NoId,
                old |-> <<>>, input |-> <<>>, attempted |-> {}, sent |-> 0, failed |-> 0, rows |-> {}]


\* ------------------------------------------------- updates and specifications
NameQ == <<"Q">>
NameLowerP == <<"p">>

EntryEvents ==
    {Callback(<<"create_party">>), Callback(<<"add_filling", 1>>),
     Callback(<<"rename_filling", 1>>), Callback(<<"search_member", 1>>),
     Callback(<<"set_info", 1, "info_address">>)}

\* The dialogue layer: one user drives the five dialogues of party 1.
DialogueUsers == {"u1"}
DialogueTexts ==
    {NameQ, <<" ">>, <<" ", " ">>, Repeat("x", MaxNameLen + 1),
     <<" ">> \o Repeat("x", MaxNameLen) \o <<" ">>, Repeat("x", MaxInfoLen + 1)}
DialogueEvents ==
    EntryEvents \cup
    {Callback(<<"cancel">>), Callback(<<"edit_party_info", 1>>)} \cup
    {TextMessage(t) : t \in DialogueTexts}

DialogueStep(u, ev) ==
    \/ create_party_start(u, ev)
    \/ receive_party_name(u, ev)
    \/ cancel_conversation(u, ev)
    \/ add_filling_start(u, ev)
    \/ receive_filling_name(u, ev)
    \/ cancel_add_filling(u, ev)
    \/ rename_filling_start(u, ev)
    \/ receive_rename(u, ev)
    \/ cancel_rename(u, ev)
    \/ search_member_start(u, ev)
    \/ receive_search_query(u, ev)
    \/ cancel_search(u, ev)
    \/ set_info_start(u, ev)
    \/ receive_info_value(u, ev)
    \/ cancel_set_info(u, ev)
    \/ edit_party_info_callback(u, ev)

NextDialogues == \E u \in DialogueUsers, ev \in DialogueEvents : DialogueStep(u, ev)

SpecDialogues == Init /\ [][NextDialogues]_vars

ActiveDialogues(u) == {d \in DOMAIN conversations : conversations[d][u] # None}

\* C1: every user has at most one active dialogue at any time.
C1_AtMostOneActiveDialogue ==
    \A u \in Users : Cardinality(ActiveDialogues(u)) <= 1

\* The event that the keyboards of a dialogue offer to cancel it.
CancelEvent(d) ==
    IF d = "set_info" THEN Callback(<<"edit_party_info", 1>>) ELSE Callback(<<"cancel">>)

\* C2: a user in a step of a dialogue who sends that dialogue's cancel event
\* is no longer in any step of that dialogue afterwards.
C2_CancelEndsTheDialogue ==
    [][\A u \in DialogueUsers : \A d \in DOMAIN conversations :
          (conversations[d][u] # None /\ DialogueStep(u, CancelEvent(d)))
              => conversations'[d][u] = None]_vars

\* C3: a user with no active dialogue has empty scratch data: no key written
\* by a dialogue that has ended is left in user_data.
C3_ScratchEmptyAfterDialogue ==
    \A u \in Users : ActiveDialogues(u) = {} => user_data[u] = NoUserData

\* The handler of the text-entry step of a dialogue.
TextStep(d, u, ev) ==
    CASE d = "create_party" -> receive_party_name(u, ev)
      [] d = "add_filling" -> receive_filling_name(u, ev)
      [] d = "rename_filling" -> receive_rename(u, ev)
      [] d = "search_member" -> receive_search_query(u, ev)
      [] d = "set_info" -> receive_info_value(u, ev)

\* The user may still act on the target of the dialogue.
MayStillAct(d, u) ==
    CASE d = "add_filling" -> is_member(user_data[u].add_filling_party_id, u)
      [] d = "rename_filling" -> is_member(user_data[u].rename_filling_party_id, u)
      [] d = "set_info" -> is_user_admin(user_data[u].edit_info_party_id, u)
      [] OTHER -> TRUE

\* The length of a text after trimming: from its first to its last character
\* that is not a space, 0 when it has none.
RECURSIVE FirstInked(_, _)
FirstInked(t, i) == IF i > Len(t) \/ t[i] # " " THEN i ELSE FirstInked(t, i + 1)

RECURSIVE LastInked(_, _)
LastInked(t, i) == IF i < 1 \/ t[i] # " " THEN i ELSE LastInked(t, i - 1)

TrimmedLen(t) ==
    IF FirstInked(t, 1) > Len(t) THEN 0 ELSE LastInked(t, Len(t)) - FirstInked(t, 1) + 1

\* Longer than the maximum of the step: 100 for a party or a filling name, 500
\* for an info value; the search step has no maximum.
LongerThanMaximum(d, t) ==
    \/ d \in {"create_party", "add_filling", "rename_filling"} /\ TrimmedLen(t) > 100
    \/ d = "set_info" /\ TrimmedLen(t) > 500

TimerUsers == {"u1", "u2"}
TimerEvents ==
    {Callback(<<"clear_info", 1, "info_address">>),
     Callback(<<"promote_admin", 1, "u2">>), Callback(<<"demote_admin", 1, "u2">>),
     Callback(<<"confirm_cancel_party", 1>>)}

TimerStep(u, ev) ==
    \/ clear_info_callback(u, ev, None)
    \/ promote_admin_callback(u, ev)
    \/ demote_admin_callback(u, ev)
    \/ confirm_cancel_party_callback(u, ev)

NextTimer ==
    \/ \E u \in TimerUsers, ev \in TimerEvents : TimerStep(u, ev)
    \/ Tick
    \/ \E p \in PartyIds : run_job(p)
    \/ \E p \in PartyIds : send_info_notification_party(p)
    \/ \E p \in PartyIds : send_info_notification_info(p)
    \/ \E p \in PartyIds : send_info_notification_members(p)
    \/ \E p \in PartyIds : send_info_notification_send(p)

SpecTimer == Init /\ [][NextTimer]_vars

\* C4: when an arm of party p replaced a job that was still pending (the
\* second arm came within the delay of the first), exactly one fire of p
\* follows: none while the new job is pending, one once it is not, and that
\* fire comes NOTIFICATION_DELAY after the second arm with the second arm's
\* initiating user.
C4_CoalescingLaw ==
    \A p \in PartyIds :
        fires[p].replaced # None =>
            /\ fires[p].count <= 1
            /\ get_jobs_by_name(p) # {} =>
                   fires[p].count = 0 /\ since_arm[p] <= NOTIFICATION_DELAY
            /\ get_jobs_by_name(p) = {} => fires[p].count = 1
            /\ fires[p].count = 1 =>
                   fires[p].at = NOTIFICATION_DELAY /\ fires[p].admin = fires[p].armed_by

C4_Witness ==
    \E p \in PartyIds :
        /\ fires[p].replaced \notin {None, fires[p].armed_by}
        /\ fires[p].count = 1
        /\ fires[p].attempted # {}

\* C5: at most one notification job per party is pending, whoever armed it
\* and whether or not a fire callback of the party is running.
C5_OnePendingJobPerParty ==
    \A p \in PartyIds : Cardinality(get_jobs_by_name(p)) <= 1

C5_Witness ==
    \E p \in PartyIds :
        /\ running[p].pc = "send"
        /\ \E i \in get_jobs_by_name(p) :
              jobs[i].admin_id # running[p].admin_id /\ fires[p].replaced # None

\* C6: a fire that finds its party deleted ends at the lookup: it reads no
\* members and sends no message.
C6_FireOfDeletedPartyIsNoOp ==
    \A p \in PartyIds :
        (fires[p].count >= 1 /\ fires[p].gone) =>
            /\ fires[p].attempted = {}
            /\ running[p].pc \in {"idle", "get_party"}
            /\ running[p].pc = "idle" => ~fires[p].found

C6_Witness ==
    \E p \in PartyIds :
        /\ fires[p].armed_by # None
        /\ fires[p].count = 1
        /\ fires[p].gone
        /\ running[p].pc = "idle"

\* C26: a fire of party p that found the party and has ended, with no arm
\* of p since, attempted a send to exactly the members it read, other than the
\* user whose arm was the last before the fire; that user was written to by
\* no send, and an admin whose pending job that arm replaced was written to
\* when a member.
C26_FireRecipients ==
    \A p \in PartyIds :
        (fires[p].count = 1 /\ fires[p].found /\ running[p].pc = "idle") =>
            /\ fires[p].attempted = fires[p].members \ {fires[p].armed_by}
            /\ fires[p].armed_by \notin fires[p].attempted
            /\ (fires[p].replaced \in fires[p].members \ {fires[p].armed_by}) =>
                   fires[p].replaced \in fires[p].attempted

\* The second admin's edit was replaced by the owner's edit inside the delay;
\* the one fire wrote to the second admin and not to the owner.
C26_Witness ==
    \E p \in PartyIds :
        /\ fires[p].count = 1 /\ fires[p].found /\ running[p].pc = "idle"
        /\ fires[p].replaced = "u2"
        /\ fires[p].armed_by = "u1"
        /\ fires[p].members = {"u1", "u2"}
        /\ fires[p].attempted = {"u2"}

\* The SetPartyInfo dialogue: u2 edits the info of party 1 while the owner u1
\* promotes and demotes u2 and cancels the party.
PickedDate == "Nov 02, 2026"
LinkText == HttpPrefix \o <<"x">>
TimeText == <<"1", "8", ".", "3", "0">>
PaddedTimeText == <<" ", "8", "3", "0">>
BadTimeText == <<"9", "9", "9">>
BlankText == <<" ">>
LongText == Repeat("x", MaxInfoLen + 1)

InfoTexts ==
    {NameQ, LinkText, TimeText, PaddedTimeText, BadTimeText, BlankText, LongText,
     Repeat("x", MaxInfoLen)}
LocationEvents == {LocationMessage("51.5", "-0.12"), LocationMessage("-33.9", "18.4")}

InfoEvents ==
    {Callback(<<"set_info", 1, f>>) :
        f \in {"info_address", "info_datetime", "info_map_link", "info_description",
               "info_bogus"}}
    \cup {TextMessage(t) : t \in InfoTexts}
    \cup LocationEvents
    \cup {Callback(<<"cbcal", "select", PickedDate>>), Callback(<<"cbcal", "nav">>),
          Callback(<<"cbcal", "noop">>), Callback(<<"pick_time", 1, 18, 30>>),
          Callback(<<"time_page", 1, 1>>), Callback(<<"edit_party_info", 1>>),
          Callback(<<"clear_info", 1, "info_address">>)}

OwnerEvents ==
    {Callback(<<"promote_admin", 1, "u2">>), Callback(<<"demote_admin", 1, "u2">>),
     Callback(<<"confirm_cancel_party", 1>>)}

InfoStep(u, ev) ==
    \/ set_info_start(u, ev)
    \/ handle_calendar_callback(u, ev)
    \/ receive_date_text(u, ev)
    \/ handle_time_callback(u, ev)
    \/ handle_time_page(u, ev)
    \/ receive_time_text(u, ev)
    \/ receive_info_value(u, ev)
    \/ receive_location(u, ev)
    \/ cancel_set_info(u, ev)
    \/ clear_info_callback(u, ev, "set_info")
    \/ clear_info_callback(u, ev, None)
    \/ edit_party_info_callback(u, ev)

OwnerStep(u, ev) ==
    \/ promote_admin_callback(u, ev)
    \/ demote_admin_callback(u, ev)
    \/ confirm_cancel_party_callback(u, ev)

NextInfo ==
    \/ \E ev \in InfoEvents : InfoStep("u2", ev)
    \/ \E ev \in OwnerEvents : OwnerStep("u1", ev)

SpecInfo == Init /\ [][NextInfo]_vars

\* A step in which u leaves the SetPartyInfo dialogue.
SetInfoEnds(u) ==
    conversations["set_info"][u] # None /\ conversations'["set_info"][u] = None

\* A step in which u's handler armed the job of party p.
Arms(p, u) ==
    /\ reply'.to = u
    /\ reply'.armed = p
    /\ \E i \in 1..Len(jobs') :
          jobs'[i] = [name |-> p, admin_id |-> u, left |-> NOTIFICATION_DELAY]

\* The answers of the handlers that wrote or cleared a field.
WriteAnswers == {"updated", "datetime_set", "map_saved", "cleared"}

\* C7, as stated: every step that ends the SetPartyInfo dialogue of a user
\* arms the job of the dialogue's party.
C7_EveryExitArms ==
    [][\A u \in Users :
          SetInfoEnds(u) => Arms(user_data[u].edit_info_party_id, u)]_vars

\* C7, amended: a step that ends the SetPartyInfo dialogue arms the job of the
\* party it wrote to when it wrote or cleared a field of a party that exists
\* (text value, time pick, location on the map-link field, clear); the other
\* exits (cancel, no permission, invalid field, party not found, lost date)
\* leave the job queue and the parties as they are.
C7_WritingExitsArm ==
    [][\A u \in Users :
          SetInfoEnds(u) =>
              /\ reply'.text \in WriteAnswers =>
                     /\ get_party_by_id(reply'.armed).id # NoId
                     /\ Arms(reply'.armed, u)
              /\ reply'.text \notin WriteAnswers =>
                     /\ jobs' = jobs
                     /\ parties' = parties
                     /\ reply'.armed = NoId]_vars

C7_Witness ==
    /\ reply.handler = "handle_time_callback"
    /\ reply.text = "datetime_set"
    /\ conversations["set_info"][reply.to] = None
    /\ get_party_by_id(reply.armed).info_datetime = DatetimeValue(PickedDate, 18, 30)
    /\ \E i \in get_jobs_by_name(reply.armed) : jobs[i].admin_id = reply.to

\* C13: when an admin in TYPING_INFO_VALUE who is editing the address or the map
\* link shares a location, the map link of the party becomes the map URL of
\* the shared latitude and longitude and the address stays as it was; the
\* dialogue ends when the field is the map link, and stays in
\* TYPING_INFO_VALUE with the same scratch when the field is the address.
C13_LocationWritesMapLink ==
    [][\A u \in Users : \A ev \in LocationEvents :
          LET party_id == user_data[u].edit_info_party_id
              field == user_data[u].edit_info_field
          IN
          (/\ is_user_admin(party_id, u)
           /\ field \in {"info_address", "info_map_link"}
           /\ receive_location(u, ev)) =>
              /\ \E r \in parties' :
                    /\ r.id = party_id
                    /\ r.info_map_link =
                           <<"h", "t", "t", "p", "s", ":", "/", "/", "maps?q=",
                             ev.lat, ",", ev.lon>>
                    /\ r.info_address = get_party_by_id(party_id).info_address
              /\ field = "info_map_link" => conversations'["set_info"][u] = None
              /\ field = "info_address" =>
                    /\ conversations'["set_info"][u] = "TYPING_INFO_VALUE"
                    /\ user_data' = user_data]_vars

\* The second location was shared while the address, already set to a text,
\* was being edited.
C13_Witness ==
    /\ reply.handler = "receive_location"
    /\ reply.text = "map_saved"
    /\ conversations["set_info"][reply.to] = "TYPING_INFO_VALUE"
    /\ user_data[reply.to].edit_info_field = "info_address"
    /\ get_party_by_id(1).info_address = NameQ
    /\ get_party_by_id(1).info_map_link = HttpsPrefix \o <<"maps?q=", "-33.9", ",", "18.4">>

\* C14: when an admin in TYPING_INFO_VALUE who is editing a field that is
\* neither the address nor the map link shares a location, the parties and the
\* job queue stay as they were and the user stays in TYPING_INFO_VALUE with
\* the same scratch.
C14_LocationRefusedForOtherFields ==
    [][\A u \in Users : \A ev \in LocationEvents :
          LET party_id == user_data[u].edit_info_party_id
              field == user_data[u].edit_info_field
          IN
          (/\ is_user_admin(party_id, u)
           /\ field \notin {"info_address", "info_map_link"}
           /\ receive_location(u, ev)) =>
              /\ parties' = parties
              /\ jobs' = jobs
              /\ reply'.armed = NoId
              /\ conversations' = conversations
              /\ user_data' = user_data]_vars

C14_Witness ==
    /\ reply.handler = "receive_location"
    /\ reply.text = "not_supported"
    /\ conversations["set_info"][reply.to] = "TYPING_INFO_VALUE"
    /\ user_data[reply.to].edit_info_field = "info_description"
    /\ is_user_admin(1, reply.to)

\* The fields whose edit goes through TYPING_INFO_VALUE.
TypedFields == {"info_address", "info_map_link", "info_description"}

\* C16, as stated: a text that an admin sends in TYPING_INFO_VALUE, non-empty
\* after trimming and at most 500 characters long, is stored trimmed in the
\* field being edited, whichever of the three fields it is, and the dialogue ends.
C16_EveryValueAccepted ==
    [][\A u \in Users : \A t \in InfoTexts :
          LET party_id == user_data[u].edit_info_party_id
              field == user_data[u].edit_info_field
          IN
          (/\ is_user_admin(party_id, u)
           /\ field \in TypedFields
           /\ strip(t) # <<>> /\ Len(strip(t)) <= 500
           /\ receive_info_value(u, TextMessage(t))) =>
              /\ \E r \in parties' : r.id = party_id /\ r[field] = strip(t)
              /\ conversations'["set_info"][u] = None]_vars

\* C16, amended: the same for the address and the description, and for the map
\* link when the trimmed text starts with http:// or https://; the other
\* fields of the party stay as they were.  A map link that does not start so
\* is not stored, and the user stays in TYPING_INFO_VALUE.
C16_ValueAcceptedUnlessBadLink ==
    [][\A u \in Users : \A t \in InfoTexts :
          LET party_id == user_data[u].edit_info_party_id
              field == user_data[u].edit_info_field
              is_link == \E scheme \in {<<"h", "t", "t", "p", ":", "/", "/">>,
                                         <<"h", "t", "t", "p", "s", ":", "/", "/">>} :
                            /\ Len(strip(t)) >= Len(scheme)
                            /\ \A i \in 1..Len(scheme) : strip(t)[i] = scheme[i]
          IN
          (/\ is_user_admin(party_id, u)
           /\ field \in TypedFields
           /\ strip(t) # <<>> /\ Len(strip(t)) <= 500
           /\ receive_info_value(u, TextMessage(t))) =>
              IF field = "info_map_link" /\ ~is_link
              THEN /\ parties' = parties
                   /\ conversations'["set_info"][u] = "TYPING_INFO_VALUE"
              ELSE /\ parties' =
                          {IF r.id = party_id THEN [r EXCEPT ![field] = strip(t)] ELSE r :
                              r \in parties}
                   /\ conversations'["set_info"][u] = None]_vars

\* A padded text was stored trimmed as the description, and a link as the map link.
C16_Witness ==
    /\ reply.handler = "receive_info_value"
    /\ reply.text = "updated"
    /\ conversations["set_info"][reply.to] = None
    /\ user_data[reply.to].edit_info_field = "info_description"
    /\ get_party_by_id(1).info_description = <<"8", "3", "0">>
    /\ get_party_by_id(1).info_map_link = LinkText
    /\ get_party_by_id(1).info_address = NULL

InfoOf(r) == <<r.info_datetime, r.info_address, r.info_map_link, r.info_description>>

\* C34: for every user, in PICKING_DATE and PICKING_TIME the field in scratch is
\* the date & time field, in TYPING_INFO_VALUE it is the address, the map link
\* or the description, and in PICKING_TIME scratch holds a picked date; no
\* handler has answered that something went wrong.
C34_ScratchFitsStep ==
    /\ \A u \in Users :
          LET step == conversations["set_info"][u] IN
          /\ step \in {"PICKING_DATE", "PICKING_TIME"} =>
                 user_data[u].edit_info_field = "info_datetime"
          /\ step = "TYPING_INFO_VALUE" =>
                 user_data[u].edit_info_field \in
                     {"info_address", "info_map_link", "info_description"}
          /\ step = "PICKING_TIME" => user_data[u].edit_info_date # None
    /\ reply.text # "went_wrong"

\* u2, promoted, typed the address in an earlier dialogue, entered the dialogue
\* again for the date & time and picked a date.
C34_Witness ==
    /\ conversations["set_info"]["u2"] = "PICKING_TIME"
    /\ user_data["u2"].edit_info_field = "info_datetime"
    /\ user_data["u2"].edit_info_date = PickedDate
    /\ reply.handler = "handle_calendar_callback"
    /\ \E r \in parties : r.id = 1 /\ r.info_address = NameQ

\* C21: an info field of a party is written only by a handler that acts for a
\* user who is an admin of that party when the handler runs; this holds on the
\* typed-value, location, time-button and typed-time paths alike.
C21_InfoWrittenOnlyByAdmin ==
    [][\A r \in parties : \A w \in parties' :
          (r.id = w.id /\ InfoOf(r) # InfoOf(w)) => is_user_admin(r.id, reply'.to)]_vars


\* The user_data keys that dialogue d writes, as they are for user u.
ScratchOf(d, u) ==
    CASE d = "add_filling" -> <<user_data[u].add_filling_party_id>>
      [] d = "rename_filling" ->
            <<user_data[u].rename_filling_id, user_data[u].rename_filling_party_id>>
      [] d = "search_member" -> <<user_data[u].search_member_party_id>>
      [] d = "set_info" ->
            <<user_data[u].edit_info_party_id, user_data[u].edit_info_field,
              user_data[u].edit_info_date>>
      [] OTHER -> <<>>

\* C23: while a user is in a step of a dialogue, an update of that user that
\* matches no handler of that step and no fallback of that dialogue leaves the
\* step and the scratch data of that dialogue as they were.
C23_UnmatchedEventIgnored ==
    [][\A d \in {Dialogues[i] : i \in 1..Len(Dialogues)} : \A ev \in InfoEvents :
          (/\ conversations[d]["u2"] # None
           /\ state_handler(d, conversations[d]["u2"], ev) = None
           /\ fallback(d, ev) = None
           /\ InfoStep("u2", ev)) =>
              /\ conversations'[d]["u2"] = conversations[d]["u2"]
              /\ ScratchOf(d, "u2")' = ScratchOf(d, "u2")]_vars

\* C25: in PICKING_DATE a calendar navigation button and a typed text leave
\* the user in PICKING_DATE and write nothing to the database or the job
\* queue; a day button stores the date in the scratch data and moves the user
\* to PICKING_TIME, also without writing; and the only other handlers that
\* take the user out of PICKING_DATE are the cancel and clear fallbacks and
\* the entry point, run again.
C25_PickingDateTransitions ==
    [][conversations["set_info"]["u2"] = "PICKING_DATE" =>
          /\ \A ev \in InfoEvents :
                /\ (/\ (IsCallback(ev, "cbcal") /\ ev.data[2] = "nav") \/ IsText(ev)
                    /\ handle_calendar_callback("u2", ev) \/ receive_date_text("u2", ev)) =>
                       /\ conversations'["set_info"]["u2"] = "PICKING_DATE"
                       /\ UNCHANGED <<db, notifier, user_data>>
                /\ (/\ IsCallback(ev, "cbcal") /\ ev.data[2] = "select"
                    /\ handle_calendar_callback("u2", ev)) =>
                       /\ conversations'["set_info"]["u2"] = "PICKING_TIME"
                       /\ user_data'["u2"] =
                              [user_data["u2"] EXCEPT !.edit_info_date = ev.data[3]]
                       /\ UNCHANGED <<db, notifier>>
          /\ conversations'["set_info"]["u2"] # "PICKING_DATE" =>
                /\ reply'.to = "u2"
                /\ reply'.handler \in {"handle_calendar_callback", "cancel_set_info",
                                       "clear_info_callback", "set_info_start"}]_vars

\* The user picked a day after a navigation button and a typed text had left
\* the dialogue in PICKING_DATE.
C25_Witness ==
    /\ reply.handler = "handle_calendar_callback"
    /\ reply.text = "pick_time"
    /\ conversations["set_info"]["u2"] = "PICKING_TIME"
    /\ user_data["u2"].edit_info_date = PickedDate
    /\ get_party_by_id(1).info_datetime = NULL

\* The fillings of party 1: both members add, rename and remove fillings, u2
\* leaves, is removed by the owner and joins again.
FillingUsers == {"u1", "u2"}
PaddedLowerP == <<" ", "p", " ">>
FillingTexts ==
    {TextMessage(t) : t \in {NameP, PaddedLowerP, NameQ}}
FillingEvents ==
    FillingTexts
    \cup {Callback(<<"add_filling", 1>>), Callback(<<"confirm_leave", 1>>),
          Callback(<<"confirm_kick", 1, "u2">>), StartCommand(1)}
    \cup {Callback(<<"rename_filling", f>>) : f \in FillingIds}
    \cup {Callback(<<"remove_filling", f>>) : f \in FillingIds}

FillingStep(u, ev) ==
    \/ add_filling_start(u, ev)
    \/ receive_filling_name(u, ev)
    \/ rename_filling_start(u, ev)
    \/ receive_rename(u, ev)
    \/ remove_filling_callback(u, ev)
    \/ confirm_leave_callback(u, ev)
    \/ confirm_kick_callback(u, ev)
    \/ start_command(u, ev)

NextFillings == \E u \in FillingUsers, ev \in FillingEvents : FillingStep(u, ev)

SpecFillings == Init /\ [][NextFillings]_vars

\* The fillings of a party whose name equals a name ignoring case.
SameNameIgnoringCase(party_id, name) ==
    {f \in fillings : f.party_id = party_id /\ LOWER(f.name) = LOWER(name)}

\* C8: when a member in the name step of AddFilling types a name that equals,
\* ignoring case, the name of a filling of the target party, no filling is
\* persisted, the user stays in the name step with the same target party, and
\* the answer names the contributor of the existing filling.
C8_DuplicateNameRejected ==
    [][\A u \in FillingUsers : \A ev \in FillingTexts :
          LET party_id == user_data[u].add_filling_party_id
              same == SameNameIgnoringCase(party_id, strip(ev.text))
          IN
          (same # {} /\ is_member(party_id, u) /\ receive_filling_name(u, ev)) =>
              /\ fillings' = fillings
              /\ fillings_id_seq' = fillings_id_seq
              /\ conversations'["add_filling"][u] = "TYPING_FILLING_NAME"
              /\ user_data'[u].add_filling_party_id = party_id
              /\ reply'.text = "taken"
              /\ reply'.arg \in {f.added_by_name : f \in same}]_vars

C8_Witness ==
    /\ reply.handler = "receive_filling_name"
    /\ reply.text = "taken"
    /\ reply.to = "u2"
    /\ reply.arg = user_display_name("u1")
    /\ conversations["add_filling"]["u2"] = "TYPING_FILLING_NAME"
    /\ \E f \in fillings : f.added_by_id = "u1" /\ f.name = NameP
    /\ \A f \in fillings : f.party_id = 1 => LOWER(f.name) = NameLowerP

\* C9: no party holds two distinct fillings whose names are equal ignoring case.
C9_FillingNamesUnique ==
    \A f, g \in fillings :
        (f.id # g.id /\ f.party_id = g.party_id) => LOWER(f.name) # LOWER(g.name)

C9_Witness ==
    /\ reply.handler = "receive_rename"
    /\ reply.text = "taken"
    /\ \E f, g \in fillings :
          /\ f.party_id = g.party_id
          /\ f.added_by_id = "u1" /\ g.added_by_id = "u2"
          /\ user_data[reply.to].rename_filling_id = g.id
          /\ reply.arg = f.added_by_name

\* C10: when a member in the RenameFilling step types a name that matches,
\* ignoring case, only the filling being renamed, the filling gets the new
\* name and the dialogue ends; and a rename is answered as taken only when a
\* different filling of the party has that name ignoring case.
C10_RenameToOwnName ==
    [][\A u \in FillingUsers : \A ev \in FillingTexts :
          LET filling_id == user_data[u].rename_filling_id
              party_id == user_data[u].rename_filling_party_id
              new_name == strip(ev.text)
              same == SameNameIgnoringCase(party_id, new_name)
          IN
          (is_member(party_id, u) /\ receive_rename(u, ev)) =>
              /\ (same # {} /\ \A f \in same : f.id = filling_id) =>
                     /\ fillings' = {IF f.id = filling_id
                                     THEN [f EXCEPT !.name = new_name] ELSE f : f \in fillings}
                     /\ conversations'["rename_filling"][u] = None
                     /\ reply'.text = "renamed"
              /\ reply'.text = "taken" =>
                     /\ fillings' = fillings
                     /\ \E f \in same : f.id # filling_id /\ reply'.arg = f.added_by_name]_vars

C10_Witness ==
    /\ reply.handler = "receive_rename"
    /\ reply.text = "renamed"
    /\ reply.old = NameP
    /\ reply.arg = NameLowerP
    /\ conversations["rename_filling"][reply.to] = None
    /\ \E f \in fillings : f.id = user_data[reply.to].rename_filling_id /\ f.name = NameLowerP

\* C20: when the filling that a user's RenameFilling dialogue is about has
\* just been removed by another user, the next name the user types ends the
\* dialogue with a not-found answer (or the not-a-member answer, when the user
\* was removed with the filling); it is never answered as a rename carried out.
C20_DeletedTargetEndsNotFound ==
    [][\A u \in FillingUsers : \A ev \in FillingTexts :
          (/\ conversations["rename_filling"][u] = "TYPING_RENAME"
           /\ get_filling_by_id(user_data[u].rename_filling_id).id = NoId
           /\ reply.to # u
           /\ reply.handler \in {"remove_filling_callback", "confirm_kick_callback"}
           /\ receive_rename(u, ev)) =>
              /\ conversations'["rename_filling"][u] = None
              /\ reply'.text \in {"filling_not_found", "not_a_member"}]_vars

\* Renaming under changing rights: the owner u1 promotes and demotes u2 while
\* both add fillings to party 1 and rename them.
RenameUsers == {"u1", "u2"}
RenameEvents(u) ==
    {TextMessage(NameP), TextMessage(NameQ), Callback(<<"add_filling", 1>>)}
    \cup {Callback(<<"rename_filling", f>>) : f \in FillingIds}
    \cup (IF u = "u1"
          THEN {Callback(<<"promote_admin", 1, "u2">>), Callback(<<"demote_admin", 1, "u2">>)}
          ELSE {})

RenameStep(u, ev) ==
    \/ add_filling_start(u, ev)
    \/ receive_filling_name(u, ev)
    \/ rename_filling_start(u, ev)
    \/ receive_rename(u, ev)
    \/ promote_admin_callback(u, ev)
    \/ demote_admin_callback(u, ev)

NextRename == \E u \in RenameUsers : \E ev \in RenameEvents(u) : RenameStep(u, ev)

SpecRename == Init /\ [][NextRename]_vars

\* C29: in every step that changes the name of a filling, the user whose event
\* is handled is, in the state the step starts from, the contributor of the
\* filling or an admin of its party.
C29_RenameOnlyByContributorOrAdmin ==
    [][\A f \in fillings : \A g \in fillings' :
          (f.id = g.id /\ f.name # g.name) =>
              \/ f.added_by_id = reply'.to
              \/ is_user_admin(f.party_id, reply'.to)]_vars

\* The typed time: the owner u1 opens the date & time field of party 1, picks
\* one of two dates and types a time; every text of up to TimeTextLen characters
\* over TimeAlphabet is typed, and the texts of OtherTimeTexts.  u1 may cancel
\* the party in between.
TimeTextLen == 3
TimeAlphabet == {"1", "8", ":"}
OtherDate == "Dec 31, 2026"
OtherTimeTexts ==
    {TimeText, PaddedTimeText, BadTimeText, BlankText,
     <<"1", "8", " ", "3", "0">>, <<"1", "8", ":", "3", "0", " ">>,
     <<"2", "5", ":", "0", "0">>, <<"8", ":", "5">>, <<"2", "3", ":", "5", "9">>,
     <<"2", "4", ":", "0", "0">>, <<"1", "8", ":", "6", "0">>, <<"0", "0", "0", "0">>,
     <<"0", ".", "0", "0">>, <<"1", "8", "x", "3", "0">>, <<"1", "8", ":", ".", "3", "0">>,
     <<"1", "8", ":", "3", "0", "0">>, <<"1", " ", "8", "3", "0">>,
     <<"1", "8", ":", "1", "8">>, <<"1", ":", "8", "1", "8">>, <<"8", ":", "1", ":", "8">>,
     <<"1", "8", "1", "8">>, <<"1", ":", "1", "8">>, <<"8", ":", "8", "1">>,
     <<":", "1", "1", "8">>, <<"1", ":", "1", ":">>}
TimeTexts ==
    UNION {[1..n -> TimeAlphabet] : n \in 1..TimeTextLen} \cup OtherTimeTexts

\* Payloads pick_time:1:<h>:<m> that match ^pick_time:\d+:\d+:\d+$ : two the
\* time picker offers, and three that only a crafted callback carries.
TimePayloads == {<<18, 30>>, <<23, 30>>, <<24, 0>>, <<18, 60>>, <<99, 99>>}
TimeEvents ==
    {TextMessage(t) : t \in TimeTexts}
    \cup {Callback(<<"set_info", 1, "info_datetime">>),
          Callback(<<"cbcal", "select", PickedDate>>),
          Callback(<<"cbcal", "select", OtherDate>>),
          Callback(<<"confirm_cancel_party", 1>>)}
    \cup {Callback(<<"pick_time", 1, hm[1], hm[2]>>) : hm \in TimePayloads}

TimeStep(u, ev) ==
    \/ set_info_start(u, ev)
    \/ handle_calendar_callback(u, ev)
    \/ receive_date_text(u, ev)
    \/ handle_time_callback(u, ev)
    \/ receive_time_text(u, ev)
    \/ confirm_cancel_party_callback(u, ev)

NextTime == \E ev \in TimeEvents : TimeStep("u1", ev)

SpecTime == Init /\ [][NextTime]_vars

\* The number a text of digits stands for.
RECURSIVE NumberOf(_)
NumberOf(t) ==
    IF t = <<>> THEN 0 ELSE 10 * NumberOf(SubSeq(t, 1, Len(t) - 1)) + DigitValue(t[Len(t)])

\* The ways to read a text as a 1-2 digit hour, at most one separator out of
\* colon, dot and whitespace, and a 2-digit minute: <<hour digits, minute digits>>.
TimeReadings(t) ==
    {<<SubSeq(t, 1, h), SubSeq(t, Len(t) - 1, Len(t))>> :
        h \in {h \in 1..2 :
                 \E s \in 0..1 :
                    /\ Len(t) = h + s + 2
                    /\ \A i \in 1..h : IsDigit(t[i])
                    /\ s = 1 => t[h + 1] \in {":", ".", " "}
                    /\ IsDigit(t[Len(t) - 1]) /\ IsDigit(t[Len(t)])}}

ValidTimeReadings(t) ==
    {r \in TimeReadings(t) : NumberOf(r[1]) \in 0..23 /\ NumberOf(r[2]) \in 0..59}

\* HH:MM of a reading, the hour zero-padded.
PaddedTime(r) == (IF Len(r[1]) = 1 THEN <<"0">> \o r[1] ELSE r[1]) \o <<":">> \o r[2]

\* C11: a text typed in PICKING_TIME for a party that exists is accepted
\* exactly when, trimmed, it reads as a 1-2 digit hour, at most one separator
\* (colon, dot, whitespace) and a 2-digit minute with hour 0..23 and minute
\* 0..59.  An accepted text stores "<picked date> at HH:MM", zero-padded, in
\* the date & time field and ends the dialogue; any other text leaves the
\* parties and the job queue as they were and stays in PICKING_TIME.
C11_TimeTextAccepted ==
    [][\A u \in Users :
          LET party_id == user_data[u].edit_info_party_id
              picked_date == user_data[u].edit_info_date
              valid == ValidTimeReadings(strip(reply'.input))
          IN
          (/\ conversations["set_info"][u] = "PICKING_TIME"
           /\ reply'.handler = "receive_time_text"
           /\ reply'.to = u
           /\ get_party_by_id(party_id).id # NoId) =>
              IF valid # {}
              THEN /\ \E r \in parties' :
                         /\ r.id = party_id
                         /\ \A v \in valid :
                               r.info_datetime =
                                   <<picked_date, " ", "a", "t", " ">> \o PaddedTime(v)
                   /\ conversations'["set_info"][u] = None
                   /\ reply'.text = "datetime_set"
              ELSE /\ parties' = parties
                   /\ jobs' = jobs
                   /\ user_data' = user_data
                   /\ conversations'["set_info"][u] = "PICKING_TIME"
                   /\ reply'.text \in {"unparsed", "invalid_time"}]_vars

\* A three-digit text typed after the other date was picked is stored as 0H:MM
\* of that date.
C11_Witness ==
    /\ reply.handler = "receive_time_text"
    /\ reply.text = "datetime_set"
    /\ reply.input = <<"8", "1", "1">>
    /\ conversations["set_info"][reply.to] = None
    /\ user_data[reply.to].edit_info_date = OtherDate
    /\ get_party_by_id(1).info_datetime =
           <<OtherDate, " ", "a", "t", " ", "0", "8", ":", "1", "1">>

\* C32: the date & time field of every party is empty or is a picked date with
\* an hour in 0..23 and a minute in 0..59.
C32_StoredTimeInRange ==
    \A r \in parties :
        \/ r.info_datetime = <<"NULL">>
        \/ \E d \in {PickedDate, OtherDate} : \E hour \in 0..23 : \E minute \in 0..59 :
              r.info_datetime = DatetimeValue(d, hour, minute)

\* Membership: u2 creates the second party; both users join and leave the
\* parties, remove, promote and demote each other, cancel the parties and add
\* a filling to party 1.
MemberUsers == {"u1", "u2"}
MemberEvents(u) ==
    {TextMessage(NameQ), Callback(<<"add_filling", 1>>)}
    \cup (IF u = "u2" THEN {Callback(<<"create_party">>)} ELSE {})
    \cup {StartCommand(p) : p \in PartyIds}
    \cup (IF u = "u2" THEN {StartCommandAs(1, "v2")} ELSE {})
    \cup {Callback(<<"confirm_leave", p>>) : p \in PartyIds}
    \cup {Callback(<<"confirm_cancel_party", p>>) : p \in PartyIds}
    \cup {Callback(<<c, p, t>>) :
            c \in {"confirm_kick", "promote_admin", "demote_admin"},
            p \in PartyIds, t \in MemberUsers}

MemberStep(u, ev) ==
    \/ create_party_start(u, ev)
    \/ receive_party_name(u, ev)
    \/ add_filling_start(u, ev)
    \/ receive_filling_name(u, ev)
    \/ start_command(u, ev)
    \/ confirm_leave_callback(u, ev)
    \/ confirm_kick_callback(u, ev)
    \/ promote_admin_callback(u, ev)
    \/ demote_admin_callback(u, ev)
    \/ confirm_cancel_party_callback(u, ev)

NextMembers == \E u \in MemberUsers : \E ev \in MemberEvents(u) : MemberStep(u, ev)

SpecMembers == Init /\ [][NextMembers]_vars

\* C12: no member row and no filling row refers to a party that does not
\* exist, in any state; and the step in which an admin's cancellation of party
\* p is carried out leaves no party p, no member of p and no filling of p.
C12_DeleteCascades ==
    /\ [](\A p \in PartyIds :
             get_party_by_id(p).id = NoId =>
                 /\ get_members(p) = {}
                 /\ {f \in fillings : f.party_id = p} = {})
    /\ [][\A u \in MemberUsers : \A p \in PartyIds :
             (/\ is_user_admin(p, u)
              /\ get_party_by_id(p).id # NoId
              /\ confirm_cancel_party_callback(u, Callback(<<"confirm_cancel_party", p>>))) =>
                 /\ \A r \in parties' : r.id # p
                 /\ \A m \in party_members' : m.party_id # p
                 /\ \A f \in fillings' : f.party_id # p
                 /\ {r \in parties' : r.id # p} = {r \in parties : r.id # p}
                 /\ {m \in party_members' : m.party_id # p} =
                        {m \in party_members : m.party_id # p}]_vars

\* Party 1 was cancelled by the promoted u2 while it had a filling, and the
\* second party, with its owner, is still there.
C12_Witness ==
    /\ reply.handler = "confirm_cancel_party_callback"
    /\ reply.text = "party_cancelled"
    /\ reply.to = "u2"
    /\ get_party_by_id(1).id = NoId
    /\ get_members(1) = {}
    /\ fillings = {}
    /\ fillings_id_seq = MaxFillings
    /\ get_party_by_id(2).id # NoId
    /\ get_members(2) # {}

\* C37: in every state the contributor of every filling is a member of the
\* filling's party and every member row and filling row names an existing
\* party; a step that takes a member row away leaves no filling of that user
\* in that party; and a text typed in AddFilling by a user who is no longer a
\* member of the party in scratch adds nothing and ends the dialogue.
C37_ContributorsAreMembers ==
    /\ [](/\ \A f \in fillings :
               /\ \E m \in party_members :
                     m.party_id = f.party_id /\ m.telegram_id = f.added_by_id
               /\ \E r \in parties : r.id = f.party_id
           /\ \A m \in party_members : \E r \in parties : r.id = m.party_id)
    /\ [][\A u \in MemberUsers :
             /\ \A m \in party_members :
                   (\A n \in party_members' :
                        ~(n.party_id = m.party_id /\ n.telegram_id = m.telegram_id)) =>
                       \A f \in fillings' :
                           ~(f.party_id = m.party_id /\ f.added_by_id = m.telegram_id)
             /\ (/\ reply'.handler = "receive_filling_name"
                 /\ reply'.to = u
                 /\ \A n \in party_members :
                       ~(n.party_id = user_data[u].add_filling_party_id /\ n.telegram_id = u)) =>
                    /\ fillings' = fillings
                    /\ reply'.text = "not_a_member"
                    /\ conversations'["add_filling"][u] = None]_vars

\* u2 added a filling and was removed from the party, which took the filling
\* away; u2 was removed again while typing in AddFilling, and the text u2 sent
\* then was refused.
C37_Witness ==
    /\ reply.handler = "receive_filling_name"
    /\ reply.text = "not_a_member"
    /\ reply.to = "u2"
    /\ fillings = {}
    /\ fillings_id_seq = 1
    /\ get_party_by_id(1).id # NoId
    /\ get_members(1) = {m \in party_members : m.telegram_id = "u1" /\ m.party_id = 1}

\* C17: the creator of every existing party is a member of it with the admin
\* flag set.
C17_OwnerIsAdminMember ==
    \A r \in parties : is_user_admin(r.id, r.creator_id)

\* The owner's attempts to leave, and the attempts of another admin to remove
\* and to demote the owner, were refused.
C17_Witness ==
    /\ reply.to = "u1"
    /\ reply.text \in {"cannot_remove_owner", "cannot_demote_owner", "owner_cannot_leave"}
    /\ \E r \in parties :
          /\ r.creator_id = "u2"
          /\ is_user_admin(r.id, "u1")
          /\ is_user_admin(r.id, "u2")

\* The member rows without their display names.
Nameless(rows) ==
    {[party_id |-> m.party_id, telegram_id |-> m.telegram_id, is_admin |-> m.is_admin] :
        m \in rows}

CreateUsers == {"u1", "u2"}
CreateTexts == {NameP, PaddedLowerP, NameQ}
CreateEvents ==
    {Callback(<<"create_party">>), Callback(<<"cancel">>)}
    \cup {TextMessage(t) : t \in CreateTexts}
    \cup {StartCommand(p) : p \in PartyIds}
    \cup {Callback(<<"confirm_cancel_party", p>>) : p \in PartyIds}

CreateStep(u, ev) ==
    \/ create_party_start(u, ev)
    \/ receive_party_name(u, ev)
    \/ receive_party_name_add_member_raises(u, ev)
    \/ cancel_conversation(u, ev)
    \/ start_command(u, ev)
    \/ confirm_cancel_party_callback(u, ev)

NextCreate == \E u \in CreateUsers, ev \in CreateEvents : CreateStep(u, ev)

SpecCreate == Init /\ [][NextCreate]_vars

\* C18: the completion of CreateParty is all or nothing: a step in which a
\* user's name step adds a party also enrols that user as an admin member of
\* it, whether or not the enrolment failed.
C18_CreateIsAtomic ==
    [][\A r \in parties' :
          r \notin parties =>
              \E m \in party_members' :
                  m.party_id = r.id /\ m.telegram_id = r.creator_id /\ m.is_admin]_vars

\* C19: no creator owns two parties whose names are equal ignoring case; and
\* when a user in the name step of CreateParty types a name that equals,
\* ignoring case, the name of a party that user created, the database stays as
\* it was and the user stays in the name step.
C19_PartyNamesUniquePerCreator ==
    /\ [](\A r, q \in parties :
             (r.id # q.id /\ r.creator_id = q.creator_id) => LOWER(r.name) # LOWER(q.name))
    /\ [][\A u \in CreateUsers : \A t \in CreateTexts :
             (/\ \E r \in parties : r.creator_id = u /\ LOWER(r.name) = LOWER(strip(t))
              /\ receive_party_name(u, TextMessage(t))) =>
                 /\ db' = db
                 /\ conversations'["create_party"][u] = "TYPING_PARTY_NAME"
                 /\ reply'.text = "duplicate"]_vars

\* u1, owner of P, was refused the name p after u2 had been given it.
C19_Witness ==
    /\ reply.handler = "receive_party_name"
    /\ reply.text = "duplicate"
    /\ reply.to = "u1"
    /\ reply.arg = NameLowerP
    /\ conversations["create_party"]["u1"] = "TYPING_PARTY_NAME"
    /\ \E r \in parties : r.creator_id = "u1" /\ r.name = NameP
    /\ \E r \in parties : r.creator_id = "u2" /\ r.name = NameLowerP

\* The sending loops: u3 joins party 1 and members leave, the owner clears a
\* field (which arms the job), the delay passes and the callback runs step by
\* step, the owner broadcasts a text and cancels the party.
SendUsers == {"u1", "u2", "u3"}
SendEvents(u) ==
    IF u = "u1"
    THEN {Callback(<<"clear_info", 1, "info_address">>), Callback(<<"broadcast", 1>>),
          TextMessage(NameQ), TextMessage(<<" ">>), Callback(<<"confirm_cancel_party", 1>>)}
    ELSE {StartCommand(1), Callback(<<"confirm_leave", 1>>), Callback(<<"broadcast", 1>>)}

SendStep(u, ev) ==
    \/ clear_info_callback(u, ev, None)
    \/ broadcast_start(u, ev)
    \/ receive_broadcast_text(u, ev)
    \/ confirm_cancel_party_callback(u, ev)
    \/ start_command(u, ev)
    \/ confirm_leave_callback(u, ev)

NextSends ==
    \/ \E u \in SendUsers : \E ev \in SendEvents(u) : SendStep(u, ev)
    \/ Advance(NOTIFICATION_DELAY)
    \/ \E p \in PartyIds : run_job(p)
    \/ \E p \in PartyIds : send_info_notification_party(p)
    \/ \E p \in PartyIds : send_info_notification_info(p)
    \/ \E p \in PartyIds : send_info_notification_members(p)
    \/ \E p \in PartyIds : send_info_notification_send(p)

SpecSends == Init /\ [][NextSends]_vars

OthersOf(party_id, u) == {m.telegram_id : m \in get_members(party_id)} \ {u}

\* C22: no sending loop stops at a send that failed.  The fire callback ends
\* its loop only after the last member it had to write to; the cancellation
\* and the broadcast attempt a send to every member other than the acting
\* user, and the two counts the broadcast reports add up to their number.
C22_FailedSendDoesNotStopLoop ==
    [][/\ \A p \in PartyIds :
             (running[p].pc = "send" /\ running'[p].pc = "idle") =>
                 Cardinality(running[p].todo) = 1
       /\ \A p \in PartyIds :
             (/\ reply'.handler = "confirm_cancel_party_callback"
              /\ get_party_by_id(p).id # NoId
              /\ \A r \in parties' : r.id # p) =>
                 reply'.attempted = OthersOf(p, reply'.to)
       /\ (reply'.handler = "receive_broadcast_text" /\ reply'.text = "sent") =>
             /\ reply'.attempted = OthersOf(user_data[reply'.to].broadcast_party_id, reply'.to)
             /\ reply'.sent + reply'.failed = Cardinality(reply'.attempted)]_vars

\* The broadcast reported two failed sends: the loop went on to the second
\* member after the send to the first had failed; and a fire callback has
\* written to one of two members.
C22_Witness ==
    /\ reply.handler = "receive_broadcast_text"
    /\ reply.failed = 2
    /\ \E p \in PartyIds :
          running[p].pc = "send" /\ fires[p].attempted # {} /\ running[p].todo # {}

\* The application loop: updates of two users arrive faster than they are
\* handled, wait in the update queue, and are fetched, dispatched and handled;
\* a handler step is the return of the handler of an update in flight (or the
\* whole handling of an update that arrives when the application is idle).
UpdateUsers == {"u1", "u2"}
UpdateEvents(u) ==
    IF u = "u1"
    THEN {Callback(<<"create_party">>), Callback(<<"cancel">>),
          Callback(<<"set_info", 1, "info_address">>),
          Callback(<<"set_info", 1, "info_datetime">>), Callback(<<"edit_party_info", 1>>)}
    ELSE {Callback(<<"add_filling", 1>>), Callback(<<"cancel">>)}

UpdateStep(u, ev) ==
    \/ create_party_start(u, ev)
    \/ cancel_conversation(u, ev)
    \/ add_filling_start(u, ev)
    \/ cancel_add_filling(u, ev)
    \/ set_info_start(u, ev)
    \/ cancel_set_info(u, ev)
    \/ edit_party_info_callback(u, ev)

NextUpdates ==
    \/ \E u \in UpdateUsers : \E ev \in UpdateEvents(u) : receive_update(u, ev)
    \/ update_fetcher
    \/ \E u \in UpdateUsers : \E ev \in UpdateEvents(u) : UpdateStep(u, ev)

SpecUpdates == Init /\ [][NextUpdates]_vars

\* C24: two updates of one user are never handled at the same time.  A handler
\* is called only when no handler is in flight, so while a handler runs the
\* step that the dispatcher saw for it is still the user's step, and two taps
\* of an entry button cannot both be dispatched on "no active dialogue".
C24_OneUpdateAtATime ==
    /\ [](\A i, j \in 1..Len(in_flight) : in_flight[i].u = in_flight[j].u => i = j)
    /\ [](\A i \in 1..Len(in_flight) :
             in_flight[i].conv # None =>
                 conversations[in_flight[i].conv][in_flight[i].u] = in_flight[i].seen)
    /\ [][Len(in_flight') > Len(in_flight) => in_flight = <<>>]_vars

\* The handler of u1's tap on create_party was called with no active dialogue
\* and has not returned; u1's second tap on the button waits in the queue.
C24_Witness ==
    /\ Len(in_flight) = 1
    /\ in_flight[1].handler = "create_party_start"
    /\ in_flight[1].seen = None
    /\ update_queue # <<>>
    /\ Head(update_queue) = [u |-> in_flight[1].u, ev |-> Callback(<<"create_party">>)]

\* The notifier beside the application loop: the owner sets the address of
\* party 1 in the set_info dialogue while the second member opens and leaves
\* the add_filling dialogue; updates queue up and are handled one at a time,
\* and the due job's callback runs step by step between their steps.
FireUsers == {"u1", "u2"}
FireEvents(u) ==
    IF u = "u1"
    THEN {Callback(<<"set_info", 1, "info_address">>), TextMessage(NameQ)}
    ELSE {Callback(<<"add_filling", 1>>), Callback(<<"cancel">>)}

FireStep(u, ev) ==
    \/ set_info_start(u, ev)
    \/ receive_info_value(u, ev)
    \/ add_filling_start(u, ev)
    \/ cancel_add_filling(u, ev)

NextFire ==
    \/ \E u \in FireUsers : \E ev \in FireEvents(u) : receive_update(u, ev)
    \/ update_fetcher
    \/ \E u \in FireUsers : \E ev \in FireEvents(u) : FireStep(u, ev)
    \/ Advance(NOTIFICATION_DELAY)
    \/ \E p \in PartyIds : run_job(p)
    \/ \E p \in PartyIds : send_info_notification_party(p)
    \/ \E p \in PartyIds : send_info_notification_info(p)
    \/ \E p \in PartyIds : send_info_notification_members(p)
    \/ \E p \in PartyIds : send_info_notification_send(p)

SpecFire == Init /\ [][NextFire]_vars

\* C27: a step of the notification fire callback (the job starting, or the
\* callback going from one await to the next) leaves every user's dialogue
\* step, every user's scratch and the stored parties, members and fillings as
\* they were, also when a handler is in flight or a dialogue is open.
C27_FireChangesNoUserState ==
    [][running' # running => UNCHANGED <<db, conversations, user_data>>]_vars

\* The callback is in its send loop while the handler of an update is in
\* flight, the owner is again at the address step with the party in scratch,
\* and the recipient has the add_filling dialogue open.
C27_Witness ==
    /\ running[1].pc = "send"
    /\ in_flight # <<>>
    /\ conversations["set_info"]["u1"] # None
    /\ user_data["u1"].edit_info_party_id = 1
    /\ user_data["u2"].add_filling_party_id = 1
    /\ conversations["add_filling"]["u2"] # None

\* Searching under changing membership: the members u1 and u2 and the
\* outsider u3 open the member search of party 1 and type queries; u1
\* removes u2, and u2 and u3 join by the invite link.
SearchUsers == {"u1", "u2", "u3"}
SearchEvents(u) ==
    {Callback(<<"search_member", 1>>), Callback(<<"cancel">>),
     TextMessage(<<"@">>), TextMessage(<<"U2">>), TextMessage(NameQ), TextMessage(BlankText)}
    \cup (IF u = "u1" THEN {Callback(<<"confirm_kick", 1, "u2">>)} ELSE {StartCommand(1)})

SearchStep(u, ev) ==
    \/ search_member_start(u, ev)
    \/ receive_search_query(u, ev)
    \/ cancel_search(u, ev)
    \/ confirm_kick_callback(u, ev)
    \/ start_command(u, ev)

NextSearch == \E u \in SearchUsers : \E ev \in SearchEvents(u) : SearchStep(u, ev)

SpecSearch == Init /\ [][NextSearch]_vars

\* C30: when a user who is not a member of the party of the user's
\* SearchMember dialogue types a query, the answer lists no member of that
\* party.
C30_NonMemberSeesNoNames ==
    [][\A u \in SearchUsers :
          (/\ reply'.handler = "receive_search_query"
           /\ reply'.to = u
           /\ conversations["search_member"][u] = "TYPING_SEARCH"
           /\ ~is_member(user_data[u].search_member_party_id, u)
           /\ \E ev \in SearchEvents(u) : receive_search_query(u, ev)) =>
              reply'.rows = {}]_vars

\* The notifier under every kind of write: the owner u1 types the address of
\* party 1, shares a location, picks a date and a time, and clears the address
\* inside and outside the dialogue, while the clock ticks and the due job
\* fires.  The job queue and the callback keep running: the clock goes on
\* while a job is pending, a due job is run, a started callback goes on.
NotifyEvents ==
    {Callback(<<"set_info", 1, "info_address">>), Callback(<<"set_info", 1, "info_datetime">>),
     TextMessage(NameQ), LocationMessage("51.5", "-0.12"),
     Callback(<<"cbcal", "select", PickedDate>>), Callback(<<"pick_time", 1, 18, 30>>),
     Callback(<<"clear_info", 1, "info_address">>)}

NotifyStep(u, ev) ==
    \/ set_info_start(u, ev)
    \/ receive_info_value(u, ev)
    \/ receive_location(u, ev)
    \/ handle_calendar_callback(u, ev)
    \/ handle_time_callback(u, ev)
    \/ clear_info_callback(u, ev, "set_info")
    \/ clear_info_callback(u, ev, None)

FireSteps ==
    \/ \E p \in PartyIds : run_job(p)
    \/ \E p \in PartyIds : send_info_notification_party(p)
    \/ \E p \in PartyIds : send_info_notification_info(p)
    \/ \E p \in PartyIds : send_info_notification_members(p)
    \/ \E p \in PartyIds : send_info_notification_send(p)

NextNotify ==
    \/ \E ev \in NotifyEvents : NotifyStep("u1", ev)
    \/ Tick
    \/ FireSteps

SpecNotify ==
    Init /\ [][NextNotify]_vars /\ WF_vars(Tick) /\ WF_vars(FireSteps)

\* A step that arms the job of party p: a handler answered a write to p and
\* left a fresh job of p behind.
ArmStep(p) ==
    /\ reply'.armed = p
    /\ since_arm'[p] = 0
    /\ \E i \in 1..Len(jobs') : jobs'[i].name = p /\ jobs'[i].left = NOTIFICATION_DELAY
    /\ (reply' # reply \/ since_arm' # since_arm \/ jobs' # jobs)

PairEvents ==
    {Callback(<<"create_party">>), TextMessage(NameQ), TextMessage(TimeText),
     TextMessage(BadTimeText), Callback(<<"cbcal", "select", PickedDate>>),
     Callback(<<"edit_party_info", 1>>)}
    \cup {Callback(<<"set_info", p, f>>) :
             p \in PartyIds, f \in {"info_datetime", "info_address"}}
    \cup {Callback(<<"pick_time", p, 18, 30>>) : p \in PartyIds}
    \cup {Callback(<<"clear_info", p, "info_address">>) : p \in PartyIds}

PairStep(u, ev) ==
    \/ create_party_start(u, ev)
    \/ receive_party_name(u, ev)
    \/ set_info_start(u, ev)
    \/ handle_calendar_callback(u, ev)
    \/ handle_time_callback(u, ev)
    \/ receive_time_text(u, ev)
    \/ receive_info_value(u, ev)
    \/ cancel_set_info(u, ev)
    \/ clear_info_callback(u, ev, "set_info")
    \/ clear_info_callback(u, ev, None)

NextPair == \E ev \in PairEvents : PairStep("u1", ev)

SpecPair == Init /\ [][NextPair]_vars

\* C33: a step handled inside a user's SetPartyInfo dialogue changes the info
\* of no party but the one stored in the user's scratch.
C33_WritesOnlyScratchParty ==
    [][\A r \in parties : \A w \in parties' :
          (/\ r.id = w.id
           /\ InfoOf(r) # InfoOf(w)
           /\ conversations["set_info"][reply'.to] # None) =>
              r.id = user_data[reply'.to].edit_info_party_id]_vars

\* Routing: the owner u1 has all five dialogues of party 1 open at once and
\* sends entry taps, also of the dialogues that are active, cancel, menu and
\* clear taps, and a text.
RoutingEvents ==
    {Callback(<<"create_party">>), Callback(<<"add_filling", 1>>),
     Callback(<<"rename_filling", 1>>), Callback(<<"search_member", 1>>),
     Callback(<<"set_info", 1, "info_address">>),
     Callback(<<"set_info", 1, "info_description">>),
     Callback(<<"set_info", 1, "info_bogus">>),
     Callback(<<"cancel">>), Callback(<<"edit_party_info", 1>>),
     Callback(<<"clear_info", 1, "info_address">>), TextMessage(NameQ)}

RoutingStep(u, ev) ==
    \/ create_party_start(u, ev)
    \/ receive_party_name(u, ev)
    \/ cancel_conversation(u, ev)
    \/ add_filling_start(u, ev)
    \/ receive_filling_name(u, ev)
    \/ cancel_add_filling(u, ev)
    \/ rename_filling_start(u, ev)
    \/ receive_rename(u, ev)
    \/ cancel_rename(u, ev)
    \/ search_member_start(u, ev)
    \/ receive_search_query(u, ev)
    \/ cancel_search(u, ev)
    \/ set_info_start(u, ev)
    \/ receive_info_value(u, ev)
    \/ cancel_set_info(u, ev)
    \/ clear_info_callback(u, ev, "set_info")
    \/ clear_info_callback(u, ev, None)
    \/ edit_party_info_callback(u, ev)

NextRouting == \E ev \in RoutingEvents : RoutingStep("u1", ev)

SpecRouting == Init /\ [][NextRouting]_vars

\* The entry step of SetPartyInfo for a field.
EntryStepOf(field) == IF field = "info_datetime" THEN "PICKING_DATE" ELSE "TYPING_INFO_VALUE"

\* No handler accepts an entry tap of CreateParty, AddFilling, RenameFilling
\* or SearchMember while that dialogue is active.
ActiveEntryIgnored ==
    \A u \in Users : \A ev \in RoutingEvents :
        \A d \in {"create_party", "add_filling", "rename_filling", "search_member"} :
            (conversations[d][u] # None /\ entry_point(d, ev) # None) =>
                process_update(u, ev).handler = None

\* C35, as stated: an entry tap of an active CreateParty, AddFilling,
\* RenameFilling or SearchMember dialogue is handled by nothing, and every
\* entry tap inside SetPartyInfo puts the dialogue at the entry step of the
\* tapped field with the tapped party and field in scratch.
C35_EveryReentryRestarts ==
    /\ []ActiveEntryIgnored
    /\ [][\A u \in Users : \A ev \in RoutingEvents :
             (/\ conversations["set_info"][u] # None
              /\ entry_point("set_info", ev) # None
              /\ reply'.handler = "set_info_start"
              /\ set_info_start(u, ev)) =>
                 /\ conversations'["set_info"][u] = EntryStepOf(ev.data[3])
                 /\ user_data'[u].edit_info_party_id = ev.data[2]
                 /\ user_data'[u].edit_info_field = ev.data[3]]_vars

\* C35, amended: the same, when the tapped field is an info field and the user
\* is an admin of the tapped party; any other entry tap inside SetPartyInfo
\* ends the dialogue and leaves scratch as it was.
C35_AcceptedReentryRestarts ==
    /\ []ActiveEntryIgnored
    /\ [][\A u \in Users : \A ev \in RoutingEvents :
             (/\ conversations["set_info"][u] # None
              /\ entry_point("set_info", ev) # None
              /\ reply'.handler = "set_info_start"
              /\ set_info_start(u, ev)) =>
                 IF ev.data[3] \in INFO_FIELDS /\ is_user_admin(ev.data[2], u)
                 THEN /\ conversations'["set_info"][u] = EntryStepOf(ev.data[3])
                      /\ user_data'[u].edit_info_party_id = ev.data[2]
                      /\ user_data'[u].edit_info_field = ev.data[3]
                      /\ reply'.text = "prompt"
                 ELSE /\ conversations'["set_info"][u] = None
                      /\ user_data' = user_data]_vars

\* All five dialogues are active, the four others at their typing step where
\* their entry taps find no handler, and SetPartyInfo was entered last, for
\* the description, with the address written in an earlier pass.
C35_Witness ==
    /\ \A d \in {"create_party", "add_filling", "rename_filling", "search_member"} :
          conversations[d]["u1"] # None
    /\ \A ev \in {Callback(<<"create_party">>), Callback(<<"add_filling", 1>>),
                  Callback(<<"rename_filling", 1>>), Callback(<<"search_member", 1>>)} :
          process_update("u1", ev).handler = None
    /\ conversations["set_info"]["u1"] = "TYPING_INFO_VALUE"
    /\ user_data["u1"].edit_info_field = "info_description"
    /\ reply.handler = "set_info_start"
    /\ reply.text = "prompt"
    /\ \E r \in parties : r.id = 1 /\ r.info_address = NameQ

\* The handler that registration i offers for the update: the five
\* conversations in their order, then the plain handlers as the sixth.
Offer(i, u, ev) ==
    IF i <= Len(Dialogues) THEN check_update(Dialogues[i], u, ev) ELSE stateless_handler(ev)

Offers(u, ev) == {i \in 1..(Len(Dialogues) + 1) : Offer(i, u, ev) # None}

\* C36: every step is the work of one handler, the first registration that
\* accepts some update of the user, and leaves the steps of the other
\* conversations alone; while SetPartyInfo is active an edit-menu tap or a
\* clear-field tap is answered by the conversation's fallback, which ends the
\* conversation, never by the plain handler of the same pattern.
C36_FirstAcceptingHandlerOnly ==
    [][\A u \in Users : reply'.to = u =>
          /\ \E ev \in RoutingEvents :
                /\ Offers(u, ev) # {}
                /\ LET first == CHOOSE i \in Offers(u, ev) : \A j \in Offers(u, ev) : i <= j IN
                   /\ reply'.handler = Offer(first, u, ev)
                   /\ \A k \in 1..Len(Dialogues) :
                         k # first => conversations'[Dialogues[k]][u] = conversations[Dialogues[k]][u]
          /\ (/\ conversations["set_info"][u] # None
              /\ reply'.handler \in {"cancel_set_info", "clear_info_callback",
                                     "edit_party_info_callback"}) =>
                 /\ reply'.handler # "edit_party_info_callback"
                 /\ conversations'["set_info"][u] = None
                 /\ reply'.handler = "clear_info_callback" =>
                       clear_info_callback(u, Callback(<<"clear_info", 1, "info_address">>), "set_info")]_vars

\* An edit-menu tap was answered by the fallback of SetPartyInfo while
\* CreateParty, registered ahead of it, was active too.
C36_Witness ==
    /\ reply.handler = "cancel_set_info"
    /\ reply.text = "edit_menu"
    /\ conversations["create_party"]["u1"] # None
    /\ conversations["set_info"]["u1"] = None

\* The info fields of two parties: u1 creates the second party and, as the
\* owner of both, sets the address and the map link of either by text and by
\* shared location, clears the address and leaves by the edit-menu tap.
FrameEvents ==
    {Callback(<<"create_party">>), TextMessage(NameQ), TextMessage(LinkText),
     LocationMessage("51.5", "-0.12"), Callback(<<"edit_party_info", 1>>)}
    \cup {Callback(<<"set_info", p, f>>) :
             p \in PartyIds, f \in {"info_address", "info_map_link"}}
    \cup {Callback(<<"clear_info", p, "info_address">>) : p \in PartyIds}

FrameStep(u, ev) ==
    \/ create_party_start(u, ev)
    \/ receive_party_name(u, ev)
    \/ set_info_start(u, ev)
    \/ receive_info_value(u, ev)
    \/ receive_location(u, ev)
    \/ cancel_set_info(u, ev)
    \/ clear_info_callback(u, ev, "set_info")
    \/ clear_info_callback(u, ev, None)

NextFrame == \E ev \in FrameEvents : FrameStep("u1", ev)

SpecFrame == Init /\ [][NextFrame]_vars

\* Replies that report an info write.
WriteReplies == {"updated", "map_saved", "cleared", "datetime_set"}

\* C38: every step keeps every party; a step whose reply reports a write sets
\* the one field it names, of the one party it names, and changes no other
\* field of any party; a step with any other reply (a failed validation, a
\* denial, a cancel, a prompt) changes no info field of any party.
C38_WriteChangesOneField ==
    [][\A r \in parties : \E w \in parties' :
          /\ w.id = r.id
          /\ reply'.text \notin WriteReplies => InfoOf(w) = InfoOf(r)
          /\ reply'.text \in WriteReplies =>
                LET u == reply'.to
                    party_id == reply'.armed
                    field == IF reply'.text = "cleared" THEN "info_address"
                             ELSE IF reply'.text = "map_saved" THEN "info_map_link"
                             ELSE IF reply'.text = "datetime_set" THEN "info_datetime"
                             ELSE user_data[u].edit_info_field
                    value == IF reply'.text = "cleared" THEN <<"NULL">> ELSE reply'.arg
                IN
                /\ \E t \in parties : t.id = party_id
                /\ \A f \in INFO_FIELDS :
                      w[f] = (IF r.id = party_id /\ f = field THEN value ELSE r[f])]_vars

\* The map link of party 1 was last set from a shared location while the
\* address of party 1 and the address and map link of party 2 kept the texts
\* typed before.
C38_Witness ==
    /\ reply.text = "map_saved"
    /\ reply.armed = 1
    /\ \E r \in parties :
          /\ r.id = 1
          /\ r.info_address = NameQ
          /\ r.info_map_link = reply.arg
    /\ \E r \in parties :
          /\ r.id = 2
          /\ r.info_address = NameQ
          /\ r.info_map_link = LinkText

\* The steps of each dialogue.
StepsOf(d) ==
    CASE d = "create_party" -> {"TYPING_PARTY_NAME"}
      [] d = "add_filling" -> {"TYPING_FILLING_NAME"}
      [] d = "rename_filling" -> {"TYPING_RENAME"}
      [] d = "search_member" -> {"TYPING_SEARCH"}
      [] d = "set_info" -> {"TYPING_INFO_VALUE", "PICKING_DATE", "PICKING_TIME"}

\* One update of every kind the bot receives: a tap for every callback
\* pattern registered, a text, a shared location and the /start command.
ProbeEvents ==
    {Callback(<<c, 1>>) :
        c \in {"create_party", "add_filling", "rename_filling", "search_member",
               "cancel", "edit_party_info", "cbcal", "time_page", "remove_filling",
               "confirm_leave", "confirm_cancel_party", "main_menu"}}
    \cup {Callback(<<"set_info", 1, "info_address">>),
          Callback(<<"clear_info", 1, "info_address">>),
          Callback(<<"pick_time", 1, 18, 30>>), Callback(<<"confirm_kick", 1, "u2">>),
          Callback(<<"promote_admin", 1, "u2">>), Callback(<<"demote_admin", 1, "u2">>),
          TextMessage(NameQ), TextMessage(<<>>), LocationMessage("51.5", "-0.12"),
          StartCommand(1)}

StepsFirst(d, state, ev) ==
    IF state_handler(d, state, ev) # None THEN state_handler(d, state, ev) ELSE fallback(d, ev)

FallbacksFirst(d, state, ev) ==
    IF fallback(d, ev) # None THEN fallback(d, ev) ELSE state_handler(d, state, ev)

\* C39: in every step of every dialogue no update is matched both by a handler
\* of the step and by a fallback, and asking the step handlers first selects
\* the handler that asking the fallbacks first selects; for an active dialogue
\* the conversation selects that handler for every update that is not taken
\* by a re-entry.
C39_FallbackOrderIrrelevant ==
    /\ \A i \in 1..Len(Dialogues) : \A state \in StepsOf(Dialogues[i]) : \A ev \in ProbeEvents :
          /\ ~(state_handler(Dialogues[i], state, ev) # None /\ fallback(Dialogues[i], ev) # None)
          /\ StepsFirst(Dialogues[i], state, ev) = FallbacksFirst(Dialogues[i], state, ev)
    /\ \A i \in 1..Len(Dialogues) : \A ev \in ProbeEvents :
          LET d == Dialogues[i]
              state == conversations[d]["u1"]
          IN (state # None /\ ~(allow_reentry(d) /\ entry_point(d, ev) # None)) =>
                 /\ state \in StepsOf(d)
                 /\ check_update(d, "u1", ev) = FallbacksFirst(d, state, ev)

\* The five dialogues are at a typing step after the address of party 1 was
\* cleared by the fallback of SetPartyInfo, and in SetPartyInfo the clear tap
\* is taken by the fallback and a text by the step under either order.
C39_Witness ==
    /\ \A i \in 1..Len(Dialogues) : conversations[Dialogues[i]]["u1"] \in StepsOf(Dialogues[i])
    /\ user_data["u1"].edit_info_field = "info_address"
    /\ \E r \in parties : r.id = 1 /\ r.info_address = NULL /\ r.info_description = NULL
    /\ since_arm[1] = 0
    /\ jobs # <<>>
    /\ check_update("set_info", "u1", Callback(<<"clear_info", 1, "info_address">>)) = "clear_info_callback"
    /\ FallbacksFirst("set_info", "TYPING_INFO_VALUE", TextMessage(NameQ)) = "receive_info_value"

====
